---- MODULE Spec2Model ----
(***************************************************************************)
(* pdfcrushinator: the job controller of app.py (create_job/run_pipeline,  *)
(* save_mapping, api_library_delete), the mapping cache it keeps under     *)
(* MAPPINGS_DIR, and the stage programs it runs from SCRIPTS_DIR.          *)
(*                                                                         *)
(* Spec     the controller with the stage programs of src/scripts (what    *)
(*          SCRIPTS_DIR holds by default).                                  *)
(* SpecCtl  the controller alone: a stage is whatever program sits at      *)
(*          SCRIPTS_DIR/<name>.py, seen through subprocess.run as a return  *)
(*          code and the files the controller looks for afterwards.        *)
(* SpecGen  SpecCtl with generate_fill_json.py of src/scripts as the       *)
(*          planning program.                                              *)
(***************************************************************************)
EXTENDS Integers, Sequences, FiniteSets, TLC

VARIABLES
    apiKey,     \* GEMINI_API_KEY is set in the environment of the stage programs
    library,    \* pdf ids with LIBRARY_DIR/<id>.pdf
    mapDir,     \* mapDir[d]: MAPPINGS_DIR/<d> exists
    mapCsv,     \* MAPPINGS_DIR/<d>/map.csv
    annotated,  \* MAPPINGS_DIR/<d>/annotated.pdf
    richCsv,    \* MAPPINGS_DIR/<d>/map_rich.csv
    pc,         \* position of each job's run_pipeline thread
    jdoc,       \* resolved_pdf_id of each job
    status,     \* JOBS_DIR/<job>/status.json
    jf,         \* the other files of JOBS_DIR/<job>
    completed,  \* names of the files in DONE_DIR/<job>
    hist,       \* history: every state written to status.json, in order
    calls,      \* history: the stage programs each job has run
    prior,      \* history: the jobs that had ended when the job was created
    svcLog,     \* history: how the planning service answered the job's requests
    evicted,    \* history: the documents api_library_delete has removed
    nativeIn,   \* one run of native_fill.py: its options and the files they name
    doc,        \* native_fill.py: the document being filled (widgets by xref)
    outActive,  \* native_fill.py: the file written to --out-active
    outFlat,    \* native_fill.py: the file written to --out-flat
    npc,        \* native_fill.py: position of the run
    earlier,    \* history: what the earlier runs of the program on these inputs left
    run         \* one run of another program on its own: inputs, position, outputs

store == <<library, mapDir, mapCsv, annotated, richCsv>>

vars == <<apiKey, library, mapDir, mapCsv, annotated, richCsv,
          pc, jdoc, status, jf, completed, hist, calls, prior, svcLog,
          evicted, nativeIn, doc, outActive, outFlat, npc, earlier, run>>

native == <<nativeIn, doc, outActive, outFlat, npc>>

\* What the steps of the controller leave alone.
tools == <<native, earlier, run>>

--------------------------------------------------------------------------
\* Bounds of the model.

MaxJobs == 2

Jobs == 1..MaxJobs

\* Document contents, named by their pdf id (sha1 of the bytes): a PDF with no
\* widgets, a PDF with widgets, and bytes PyMuPDF cannot open.
Docs == {"blank", "form", "corrupt"}

Readable(d) == d # "corrupt"

NWidgets(d) == IF d = "form" THEN 2 ELSE 0

NoDoc == "-"

--------------------------------------------------------------------------
\* Files.  by = the job that wrote the file, 0 = the save endpoint.  Of the files
\* of a job, dir is JOBS_DIR/<job> itself.

NoFile == [ex |-> FALSE, rows |-> 0, by |-> 0]

FileOf(n, j) == [ex |-> TRUE, rows |-> n, by |-> j]

NoJobFiles == [dir |-> FALSE, input |-> FALSE, mapCsv |-> -1, annotPdf |-> FALSE,
               finalPdf |-> FALSE, plan |-> FALSE, filled |-> FALSE]

\* The keys set_status adds to the record from its extra argument.
NoExtra == {}

MappingLinks == {"pdf_id", "annotated_url", "rich_map_url"}

OutputLinks == {"pdf_url", "json_url"}

\* read_status when status.json does not exist
NoStatus == [state |-> "unknown", progress |-> 0, message |-> "No status.",
             extra |-> NoExtra]

\* mapping_exists(pdf_id)
mapping_exists(d) == richCsv[d].ex

--------------------------------------------------------------------------
\* set_status / write_status: the whole record is replaced.

StatusRec(state, progress, message, extra) ==
    [state |-> state, progress |-> progress, message |-> message, extra |-> extra]

set_status(j, state, progress, message, extra) ==
    /\ status' = [status EXCEPT ![j] = StatusRec(state, progress, message, extra)]
    /\ hist' = [hist EXCEPT ![j] = Append(@, state)]

\* A mutant: the error is recorded but the pipeline carries on with the fill phase.
HandleExceptionAndGoOn(j, message) ==
    /\ set_status(j, "error", 100, message, NoExtra)
    /\ pc' = [pc EXCEPT ![j] = "advance"]

\* A mutant: the error is recorded at the progress the job had reached.
HandleExceptionKeepingProgress(j, message) ==
    /\ set_status(j, "error", status[j].progress, message, NoExtra)
    /\ pc' = [pc EXCEPT ![j] = "finished"]

\* except Exception as e: set_status(job_dir, "error", 100, str(e)); the thread ends.
HandleException(j, message) ==
    /\ set_status(j, "error", 100, message, NoExtra)
    /\ pc' = [pc EXCEPT ![j] = "finished"]

\* The record of one stage run: were the files it is given in place, did it return 0.
Log(j, stage, ready, rc) ==
    calls' = [calls EXCEPT ![j] =
                 Append(@, [stage |-> stage, ready |-> ready, ok |-> rc = 0])]

--------------------------------------------------------------------------
\* native_fill.py not running.

NoRun == "-"

At(at, i) == [at |-> at, i |-> i]

NativeIdle ==
    /\ nativeIn = NoRun
    /\ doc = NoRun
    /\ outActive = NoRun
    /\ outFlat = NoRun
    /\ npc = At("idle", 0)

\* No program is run on its own.
NoOtherRun ==
    /\ earlier = <<>>
    /\ run = NoRun

--------------------------------------------------------------------------
\* The data directories are empty and no job exists.
InitJobs ==
    /\ apiKey \in BOOLEAN
    /\ library = {}
    /\ mapDir = [d \in Docs |-> FALSE]
    /\ mapCsv = [d \in Docs |-> NoFile]
    /\ annotated = [d \in Docs |-> NoFile]
    /\ richCsv = [d \in Docs |-> NoFile]
    /\ pc = [j \in Jobs |-> "none"]
    /\ jdoc = [j \in Jobs |-> NoDoc]
    /\ status = [j \in Jobs |-> NoStatus]
    /\ jf = [j \in Jobs |-> NoJobFiles]
    /\ completed = [j \in Jobs |-> {}]
    /\ hist = [j \in Jobs |-> <<>>]
    /\ calls = [j \in Jobs |-> <<>>]
    /\ prior = [j \in Jobs |-> {}]
    /\ svcLog = [j \in Jobs |-> "none"]
    /\ evicted = {}

Init == InitJobs /\ NativeIdle /\ NoOtherRun

\* create_job, accepted: job_id is fresh; the document comes as an upload (and is
\* added to the library) or as the pdf_id of a library document.
CreateJob(j, d, upload) ==
    /\ pc[j] = "none"
    /\ \A k \in Jobs : k < j => pc[k] # "none"
    /\ upload \/ d \in library
    /\ library' = IF upload THEN library \cup {d} ELSE library
    /\ jdoc' = [jdoc EXCEPT ![j] = d]
    /\ jf' = [jf EXCEPT ![j].dir = TRUE, ![j].input = TRUE]
    /\ set_status(j, "queued", 0, "Queued", NoExtra)
    /\ pc' = [pc EXCEPT ![j] = "start"]
    /\ prior' = [prior EXCEPT ![j] = {k \in Jobs : pc[k] = "finished"}]
    /\ UNCHANGED <<apiKey, mapDir, mapCsv, annotated, richCsv, completed, calls, svcLog, evicted, tools>>

\* create_job, rejected; pdf and pdf_id tell which of the two the request carries.
\* With both or neither, HTTPException(400) is raised before anything is written.
\* With a pdf_id alone that is not in the library, job_id has been drawn and
\* job_dir made before p.exists() is looked at: HTTPException(404) leaves the
\* directory behind, with no status.json in it, and no thread is started.
CreateJobRejected(j, d, pdf, pdf_id) ==
    /\ pc[j] = "none"
    /\ \A k \in Jobs : k < j => pc[k] # "none"
    /\ IF pdf = pdf_id
         THEN UNCHANGED <<pc, jf>>
         ELSE /\ pdf_id
              /\ d \notin library
              /\ jf' = [jf EXCEPT ![j].dir = TRUE]
              /\ pc' = [pc EXCEPT ![j] = "rejected"]
    /\ UNCHANGED <<apiKey, store, jdoc, status, completed, hist, calls, prior, svcLog,
                   evicted, tools>>

\* run_pipeline: set_status(running, 8); map_dir.mkdir(parents=True, exist_ok=True)
Start(j) ==
    /\ pc[j] = "start"
    /\ set_status(j, "running", 8, "Preparing", NoExtra)
    /\ mapDir' = [mapDir EXCEPT ![jdoc[j]] = TRUE]
    /\ pc' = [pc EXCEPT ![j] = "check"]
    /\ UNCHANGED <<apiKey, library, mapCsv, annotated, richCsv, jdoc, jf, completed,
                   calls, prior, svcLog, evicted, tools>>

\* A mutant: a job that finds the mapping cached reports needs_mapping on its way
\* to the fill phase.
CheckReportingMapped(j) ==
    /\ pc[j] = "check"
    /\ IF ~mapping_exists(jdoc[j])
         THEN /\ set_status(j, "running", 18, "Extracting fields", NoExtra)
              /\ pc' = [pc EXCEPT ![j] = "extract"]
         ELSE /\ set_status(j, "needs_mapping", 45, "Mapped", MappingLinks)
              /\ pc' = [pc EXCEPT ![j] = "advance"]
    /\ UNCHANGED <<apiKey, store, jdoc, jf, completed, calls, prior, svcLog, evicted, tools>>

\* run_pipeline: if not rich_csv.exists(): set_status(running, 18) ...
Check(j) ==
    /\ pc[j] = "check"
    /\ IF ~mapping_exists(jdoc[j])
         THEN /\ set_status(j, "running", 18, "Extracting fields", NoExtra)
              /\ pc' = [pc EXCEPT ![j] = "extract"]
         ELSE /\ pc' = [pc EXCEPT ![j] = "advance"]
              /\ UNCHANGED <<status, hist>>
    /\ UNCHANGED <<apiKey, store, jdoc, jf, completed, calls, prior, svcLog, evicted, tools>>

--------------------------------------------------------------------------
\* The stage programs of src/scripts, each as the result of one run: its return
\* code and the files it leaves.

\* extract_form_fields.py __main__: fitz.open raises on bytes it cannot read; a
\* document with no widgets yields a header-only <stem>_map.csv and return code 0.
\* The rendering is written as <stem>_annotated.pdf, never as <stem>_final.pdf.
ExtractMain(d) ==
    IF Readable(d)
      THEN [rc |-> 0, csv |-> NWidgets(d), annot |-> TRUE, final |-> FALSE]
      ELSE [rc |-> 1, csv |-> -1, annot |-> FALSE, final |-> FALSE]

\* label_from_vision.py main: exits without GEMINI_API_KEY; pd.read_csv raises on a
\* missing map.csv; with at least one record the first batch evaluates the unbound
\* name image_parts (NameError); with none the loop is skipped and
\* <stem>_rich.csv is written beside the csv.  The pdf argument is never opened.
LabelMain(key, csv) ==
    IF ~key THEN [rc |-> 1, out |-> FALSE]
    ELSE IF ~csv.ex THEN [rc |-> 1, out |-> FALSE]
    ELSE IF csv.rows > 0 THEN [rc |-> 1, out |-> FALSE]
    ELSE [rc |-> 0, out |-> TRUE]

\* The answers of the Fill Planning Service to the requests of one run: every
\* request answered, a request raised, or an answer that does not parse.
SvcOutcomes == {"ok", "raise", "empty"}

\* generate_fill_json.py main: os.environ["GEMINI_API_KEY"] raises KeyError; the csv
\* and the pdf are opened before any request (called = FALSE when the run ends
\* before them); a request that raises is printed and skipped, an answer that does
\* not parse adds nothing, and the items gathered (possibly none) are written
\* to --out with return code 0.
GenfillMain(key, rich, pdf, svc) ==
    IF ~key \/ ~rich.ex \/ ~pdf.ex
      THEN [rc |-> 1, out |-> FALSE, called |-> FALSE]
      ELSE [rc |-> 0, out |-> TRUE, called |-> TRUE]

\* native_fill.py main, argument parsing: --pdf, --csv, --plan, --out-active and
\* --out-flat are required; "--out" abbreviates two options and is rejected as
\* ambiguous.  argparse exits with code 2 before anything is read or written.
NativeRequired == {"--pdf", "--csv", "--plan", "--out-active", "--out-flat"}

NativeMain(argv) ==
    IF argv = NativeRequired
      THEN [rc |-> 0, out |-> TRUE]
      ELSE [rc |-> 2, out |-> FALSE]

\* The options run_pipeline passes to native_fill.py.
NativeArgv == {"--pdf", "--csv", "--plan", "--out"}

\* subprocess.run as the controller sees it, whatever the program: a return code,
\* and whether the files the controller looks for afterwards were written.
StageAny ==
    {[rc |-> 0, out |-> TRUE], [rc |-> 0, out |-> FALSE], [rc |-> 1, out |-> FALSE]}

ExtractAny(d) ==
    {[rc |-> r.rc, csv |-> IF r.out THEN NWidgets(d) ELSE -1, annot |-> FALSE,
      final |-> r.out] : r \in StageAny}

--------------------------------------------------------------------------
\* run_pipeline, one action per stage call or file operation.

\* r1 = subprocess.run([EXTRACT, input_pdf_path], cwd=job_dir)
Extract(j, r) ==
    /\ pc[j] = "extract"
    /\ Log(j, "extract", jf[j].input, r.rc)
    /\ jf' = [jf EXCEPT ![j].mapCsv = r.csv, ![j].annotPdf = r.annot,
                         ![j].finalPdf = r.final]
    /\ IF r.rc # 0
         THEN HandleException(j, "extract_form_gem4 failed")
         ELSE /\ pc' = [pc EXCEPT ![j] = "move"]
              /\ UNCHANGED <<status, hist>>
    /\ UNCHANGED <<apiKey, store, jdoc, completed, prior, svcLog, evicted, tools>>

IoFaults == {"none", "csv", "pdf"}

\* shutil.copyfile into the mapping directory, each copy only if its source exists;
\* io names the copy that raises, if any (a copy into a removed directory raises).
Move(j, io) ==
    LET d == jdoc[j]
        hasCsv == jf[j].mapCsv >= 0
        hasPdf == jf[j].finalPdf
        csvFails == hasCsv /\ (io = "csv" \/ ~mapDir[d])
        pdfFails == hasPdf /\ (io = "pdf" \/ ~mapDir[d])
    IN  /\ pc[j] = "move"
        /\ mapCsv' = IF hasCsv /\ ~csvFails
                       THEN [mapCsv EXCEPT ![d] = FileOf(jf[j].mapCsv, j)]
                       ELSE mapCsv
        /\ annotated' = IF hasPdf /\ ~csvFails /\ ~pdfFails
                          THEN [annotated EXCEPT ![d] = FileOf(0, j)]
                          ELSE annotated
        /\ IF csvFails \/ pdfFails
             THEN HandleException(j, "Failed to move mapping outputs")
             ELSE /\ set_status(j, "running", 38, "Labeling fields", NoExtra)
                  /\ pc' = [pc EXCEPT ![j] = "label"]
        /\ UNCHANGED <<apiKey, library, mapDir, richCsv, jdoc, jf, completed, calls,
                       prior, svcLog, evicted, tools>>

\* A mutant: a labeling run that returns non-zero is tried again.
LabelRetrying(j, r) ==
    LET d == jdoc[j]
    IN  /\ pc[j] = "label"
        /\ Log(j, "label", mapCsv[d].ex /\ annotated[d].ex, r.rc)
        /\ richCsv' = IF r.out /\ mapDir[d]
                        THEN [richCsv EXCEPT ![d] = FileOf(mapCsv[d].rows, j)]
                        ELSE richCsv
        /\ IF r.rc # 0
             THEN UNCHANGED <<status, hist, pc>>
             ELSE /\ set_status(j, "needs_mapping", 45, "Mapped", MappingLinks)
                  /\ pc' = [pc EXCEPT ![j] = "advance"]
        /\ UNCHANGED <<apiKey, library, mapDir, mapCsv, annotated, jdoc, jf, completed,
                       prior, svcLog, evicted, tools>>

\* r2 = subprocess.run([LABEL, annotated, map_csv]); on success needs_mapping.
\* The program's output is map_rich.csv beside map.csv, with the rows of map.csv.
Label(j, r) ==
    LET d == jdoc[j]
    IN  /\ pc[j] = "label"
        /\ Log(j, "label", mapCsv[d].ex /\ annotated[d].ex, r.rc)
        /\ richCsv' = IF r.out /\ mapDir[d]
                        THEN [richCsv EXCEPT ![d] = FileOf(mapCsv[d].rows, j)]
                        ELSE richCsv
        /\ IF r.rc # 0
             THEN HandleException(j, "label_from_vision failed")
             ELSE /\ set_status(j, "needs_mapping", 45, "Mapped", MappingLinks)
                  /\ pc' = [pc EXCEPT ![j] = "advance"]
        /\ UNCHANGED <<apiKey, library, mapDir, mapCsv, annotated, jdoc, jf, completed,
                       prior, svcLog, evicted, tools>>

\* A mutant: the fill phase opens by reporting the job done.
AdvanceAsDone(j) ==
    /\ pc[j] = "advance"
    /\ set_status(j, "done", 55, "Generating fill JSON", NoExtra)
    /\ pc' = [pc EXCEPT ![j] = "plan"]
    /\ UNCHANGED <<apiKey, store, jdoc, jf, completed, calls, prior, svcLog, evicted, tools>>

\* A mutant: after needs_mapping the thread waits for the state to be changed by
\* someone else before it goes on.
AdvanceOnConfirmation(j) ==
    /\ pc[j] = "advance"
    /\ status[j].state # "needs_mapping"
    /\ set_status(j, "running", 55, "Generating fill JSON", NoExtra)
    /\ pc' = [pc EXCEPT ![j] = "plan"]
    /\ UNCHANGED <<apiKey, store, jdoc, jf, completed, calls, prior, svcLog, evicted, tools>>

\* set_status(running, 55): the start of the fill phase, on both paths
Advance(j) ==
    /\ pc[j] = "advance"
    /\ set_status(j, "running", 55, "Generating fill JSON", NoExtra)
    /\ pc' = [pc EXCEPT ![j] = "plan"]
    /\ UNCHANGED <<apiKey, store, jdoc, jf, completed, calls, prior, svcLog, evicted, tools>>

\* A mutant: the return code of the planning program is not looked at.
PlanIgnoringReturnCode(j, r) ==
    /\ pc[j] = "plan"
    /\ Log(j, "plan", richCsv[jdoc[j]].ex, r.rc)
    /\ jf' = [jf EXCEPT ![j].plan = @ \/ r.out]
    /\ set_status(j, "running", 78, "Native filling", NoExtra)
    /\ pc' = [pc EXCEPT ![j] = "fill"]
    /\ UNCHANGED <<apiKey, store, jdoc, completed, prior, evicted, tools>>

\* r3 = subprocess.run([GENFILL, --csv rich_csv --pdf annotated --out fill_plan.json])
Plan(j, r) ==
    /\ pc[j] = "plan"
    /\ Log(j, "plan", richCsv[jdoc[j]].ex, r.rc)
    /\ jf' = [jf EXCEPT ![j].plan = @ \/ r.out]
    /\ IF r.rc # 0
         THEN HandleException(j, "generate_fill_json failed")
         ELSE /\ set_status(j, "running", 78, "Native filling", NoExtra)
              /\ pc' = [pc EXCEPT ![j] = "fill"]
    /\ UNCHANGED <<apiKey, store, jdoc, completed, prior, evicted, tools>>

\* The planning stage run by a program that makes no request of its own account.
PlanAny(j, r) ==
    /\ Plan(j, r)
    /\ UNCHANGED svcLog

\* The planning stage run by generate_fill_json.py, the service answering svc.
PlanGen(j, svc) ==
    /\ pc[j] = "plan"
    /\ LET r == GenfillMain(apiKey, richCsv[jdoc[j]], annotated[jdoc[j]], svc)
       IN  /\ Plan(j, r)
           /\ svcLog' = [svcLog EXCEPT ![j] = IF r.called THEN svc ELSE "none"]

\* r4 = subprocess.run([NATIVE, --pdf input --csv rich_csv --plan fill_json --out filled])
Fill(j, r) ==
    /\ pc[j] = "fill"
    /\ Log(j, "fill", jf[j].plan, r.rc)
    /\ jf' = [jf EXCEPT ![j].filled = @ \/ r.out]
    /\ IF r.rc # 0
         THEN HandleException(j, "native_fill failed")
         ELSE /\ pc' = [pc EXCEPT ![j] = "save_filled"]
              /\ UNCHANGED <<status, hist>>
    /\ UNCHANGED <<apiKey, store, jdoc, completed, prior, svcLog, evicted, tools>>

\* A mutant: a failed write into DONE_DIR/<job_id> removes what was stored there.
SaveStepRollingBack(j, at, name, present, ok, next) ==
    /\ pc[j] = at
    /\ IF present /\ ok
         THEN /\ completed' = [completed EXCEPT ![j] = @ \cup {name}]
              /\ pc' = [pc EXCEPT ![j] = next]
              /\ UNCHANGED <<status, hist>>
         ELSE /\ HandleException(j, "str(e)")
              /\ completed' = [completed EXCEPT ![j] = {}]
    /\ UNCHANGED <<apiKey, store, jdoc, jf, calls, prior, svcLog, evicted, tools>>

\* A mutant: the outputs are stored under the pdf id, an entry that the jobs on
\* one document share.
SaveStepUnderPdfId(j, at, name, present, ok, next) ==
    /\ pc[j] = at
    /\ IF present /\ ok
         THEN /\ completed' = [k \in Jobs |-> IF jdoc[k] = jdoc[j]
                                                THEN completed[k] \cup {name}
                                                ELSE completed[k]]
              /\ pc' = [pc EXCEPT ![j] = next]
              /\ UNCHANGED <<status, hist>>
         ELSE /\ HandleException(j, "str(e)")
              /\ UNCHANGED completed
    /\ UNCHANGED <<apiKey, store, jdoc, jf, calls, prior, svcLog, evicted, tools>>

\* One write into DONE_DIR/<job_id>: copyfile raises when its source is missing or
\* the write fails (ok = FALSE), and the exception text becomes the message.
SaveStep(j, at, name, present, ok, next) ==
    /\ pc[j] = at
    /\ IF present /\ ok
         THEN /\ completed' = [completed EXCEPT ![j] = @ \cup {name}]
              /\ pc' = [pc EXCEPT ![j] = next]
              /\ UNCHANGED <<status, hist>>
         ELSE /\ HandleException(j, "str(e)")
              /\ UNCHANGED completed
    /\ UNCHANGED <<apiKey, store, jdoc, jf, calls, prior, svcLog, evicted, tools>>

\* done_dir.mkdir(); shutil.copyfile(filled_pdf, done_dir / "filled.pdf")
SaveFilled(j, ok) ==
    SaveStep(j, "save_filled", "filled.pdf", jf[j].filled, ok, "save_plan")

\* A mutant: a plan that cannot be copied is passed over.
SavePlanPassingOver(j, ok) ==
    /\ pc[j] = "save_plan"
    /\ completed' = [completed EXCEPT ![j] = IF jf[j].plan /\ ok
                                              THEN @ \cup {"fill_plan.json"}
                                              ELSE @]
    /\ pc' = [pc EXCEPT ![j] = "save_meta"]
    /\ UNCHANGED <<apiKey, store, jdoc, status, jf, hist, calls, prior, svcLog, evicted,
                   tools>>

\* shutil.copyfile(fill_json, done_dir / "fill_plan.json")
SavePlan(j, ok) ==
    SaveStep(j, "save_plan", "fill_plan.json", jf[j].plan, ok, "save_meta")

\* (done_dir / "meta.json").write_text(...)
SaveMeta(j, ok) ==
    SaveStep(j, "save_meta", "meta.json", TRUE, ok, "set_done")

\* set_status(done, 100, extra = pdf_url, json_url); the thread ends
Done(j) ==
    /\ pc[j] = "set_done"
    /\ set_status(j, "done", 100, "Done.", OutputLinks)
    /\ pc' = [pc EXCEPT ![j] = "finished"]
    /\ UNCHANGED <<apiKey, store, jdoc, jf, completed, calls, prior, svcLog, evicted, tools>>

--------------------------------------------------------------------------
\* The endpoints that write the mapping cache.

MaxRows == 1

\* A mutant: the body is added to the rows map_rich.csv holds.
save_mapping_appending(rich, dirs, d, n) ==
    IF dirs[d] THEN [rich EXCEPT ![d] = FileOf(@.rows + n, 0)] ELSE rich

\* save_mapping as a function of the store: the map_rich.csv files after a request
\* with a body of n rows for identity d.
save_mapping(rich, dirs, d, n) ==
    IF dirs[d] THEN [rich EXCEPT ![d] = FileOf(n, 0)] ELSE rich

\* save_mapping: 404 (nothing changes) unless the mapping directory exists; the
\* body replaces map_rich.csv, whatever it holds.
SaveMapping(d, n) ==
    /\ mapDir[d]
    /\ richCsv' = save_mapping(richCsv, mapDir, d, n)
    /\ UNCHANGED <<apiKey, library, mapDir, mapCsv, annotated, pc, jdoc, status, jf,
                   completed, hist, calls, prior, svcLog, evicted, tools>>

\* A mutant: the delete unlinks the library pdf and the rendering and leaves the
\* tables where they are.
LibraryDeleteKeepingTables(d) ==
    /\ d \in library \/ mapDir[d]
    /\ library' = library \ {d}
    /\ annotated' = [annotated EXCEPT ![d] = NoFile]
    /\ evicted' = evicted \cup {d}
    /\ UNCHANGED <<apiKey, mapDir, mapCsv, richCsv, pc, jdoc, status, jf, completed,
                   hist, calls, prior, svcLog, tools>>

\* A mutant: the delete also removes the completed entries of the jobs that were
\* run on the document.
LibraryDeleteCascading(d) ==
    /\ d \in library \/ mapDir[d]
    /\ library' = library \ {d}
    /\ mapDir' = [mapDir EXCEPT ![d] = FALSE]
    /\ mapCsv' = [mapCsv EXCEPT ![d] = NoFile]
    /\ annotated' = [annotated EXCEPT ![d] = NoFile]
    /\ richCsv' = [richCsv EXCEPT ![d] = NoFile]
    /\ completed' = [j \in Jobs |-> IF jdoc[j] = d THEN {} ELSE completed[j]]
    /\ evicted' = evicted \cup {d}
    /\ UNCHANGED <<apiKey, pc, jdoc, status, jf, hist, calls, prior, svcLog, tools>>

\* api_library_delete: unlink the library pdf, rmtree the mapping directory
LibraryDelete(d) ==
    /\ d \in library \/ mapDir[d]
    /\ library' = library \ {d}
    /\ mapDir' = [mapDir EXCEPT ![d] = FALSE]
    /\ mapCsv' = [mapCsv EXCEPT ![d] = NoFile]
    /\ annotated' = [annotated EXCEPT ![d] = NoFile]
    /\ richCsv' = [richCsv EXCEPT ![d] = NoFile]
    /\ evicted' = evicted \cup {d}
    /\ UNCHANGED <<apiKey, pc, jdoc, status, jf, completed, hist, calls, prior, svcLog,
                   tools>>

Endpoint ==
    \/ \E d \in Docs, n \in 1..MaxRows : SaveMapping(d, n)
    \/ \E d \in Docs : LibraryDelete(d)

--------------------------------------------------------------------------
\* Spec: app.py with the stage programs of src/scripts.  The planning program
\* needs annotated.pdf, which no step writes (the extractor leaves
\* <stem>_annotated.pdf, the controller copies <stem>_final.pdf), so no job gets
\* past the planning stage: NoJobPastPlan below.  The steps after it are those of
\* SpecCtl.

Next ==
    \/ \E j \in Jobs :
        \/ \E d \in Docs, u \in BOOLEAN : CreateJob(j, d, u)
        \/ Start(j)
        \/ Check(j)
        \/ Extract(j, ExtractMain(jdoc[j]))
        \/ \E io \in IoFaults : Move(j, io)
        \/ Label(j, LabelMain(apiKey, mapCsv[jdoc[j]]))
        \/ Advance(j)
        \/ \E svc \in SvcOutcomes : PlanGen(j, svc)
    \/ Endpoint

Spec == Init /\ [][Next]_vars

\* The same with every step of run_pipeline, to check that the rest is dead code
\* there: the fill program, were it reached, rejects the options it is given.
NextAll ==
    \/ Next
    \/ \E j \in Jobs :
        \/ Fill(j, NativeMain(NativeArgv))
        \/ \E ok \in BOOLEAN : SaveFilled(j, ok)
        \/ \E ok \in BOOLEAN : SavePlan(j, ok)
        \/ \E ok \in BOOLEAN : SaveMeta(j, ok)
        \/ Done(j)

SpecAll == Init /\ [][NextAll]_vars

NoJobPastPlan ==
    \A j \in Jobs : pc[j] \notin {"fill", "save_filled", "save_plan", "save_meta", "set_done"}

--------------------------------------------------------------------------
\* SpecCtl: app.py with any stage programs.  What a document holds plays no part
\* here, so the jobs are given the one document they can share.

CtlDocs == {"form"}

InitCtl == Init /\ apiKey

MapPhaseAny(j) ==
    \/ \E d \in CtlDocs, u \in BOOLEAN : CreateJob(j, d, u)
    \/ Start(j)
    \/ Check(j)
    \/ \E r \in ExtractAny(jdoc[j]) : Extract(j, r)
    \/ \E io \in IoFaults : Move(j, io)
    \/ \E r \in StageAny : Label(j, r)
    \/ Advance(j)

FillPhaseAny(j) ==
    \/ \E r \in StageAny : Fill(j, r)
    \/ \E ok \in BOOLEAN : SaveFilled(j, ok)
    \/ \E ok \in BOOLEAN : SavePlan(j, ok)
    \/ \E ok \in BOOLEAN : SaveMeta(j, ok)
    \/ Done(j)

NextCtl ==
    \/ \E j \in Jobs :
        \/ MapPhaseAny(j)
        \/ \E r \in StageAny : PlanAny(j, r)
        \/ FillPhaseAny(j)
    \/ Endpoint

SpecCtl == InitCtl /\ [][NextCtl]_vars

\* SpecApi: SpecCtl with the requests that create_job rejects.
NextApi ==
    \/ NextCtl
    \/ \E j \in Jobs, d \in CtlDocs, pdf \in BOOLEAN, pdf_id \in BOOLEAN :
          CreateJobRejected(j, d, pdf, pdf_id)

SpecApi == InitCtl /\ [][NextApi]_vars

\* The steps of the thread of job j: everything after create_job has returned.
Worker(j) ==
    \/ Start(j)
    \/ Check(j)
    \/ \E r \in ExtractAny(jdoc[j]) : Extract(j, r)
    \/ \E io \in IoFaults : Move(j, io)
    \/ \E r \in StageAny : Label(j, r)
    \/ Advance(j)
    \/ \E r \in StageAny : PlanAny(j, r)
    \/ FillPhaseAny(j)

\* SpecCtlFair: SpecCtl where every started thread keeps being scheduled and every
\* subprocess.run returns.  Requests (create_job, save, delete) need never come.
SpecCtlFair == SpecCtl /\ \A j \in Jobs : WF_vars(Worker(j))

\* SpecGen: the same with generate_fill_json.py as the planning program.
NextGen ==
    \/ \E j \in Jobs :
        \/ MapPhaseAny(j)
        \/ \E svc \in SvcOutcomes : PlanGen(j, svc)
        \/ FillPhaseAny(j)
    \/ Endpoint

SpecGen == Init /\ [][NextGen]_vars

--------------------------------------------------------------------------
\* native_fill.py on its own.  Strings are sequences of characters.

UpperCase == <<"A", "B", "C", "D", "E", "F", "G", "H", "I", "J", "K", "L", "M",
               "N", "O", "P", "Q", "R", "S", "T", "U", "V", "W", "X", "Y", "Z">>

LowerCase == <<"a", "b", "c", "d", "e", "f", "g", "h", "i", "j", "k", "l", "m",
               "n", "o", "p", "q", "r", "s", "t", "u", "v", "w", "x", "y", "z">>

LowerChar(c) ==
    IF \E i \in 1..26 : UpperCase[i] = c
      THEN LowerCase[CHOOSE i \in 1..26 : UpperCase[i] = c]
      ELSE c

\* str.lower()
Lower(s) == [i \in 1..Len(s) |-> LowerChar(s[i])]

\* A value of a plan item as json.load returns it: a string, a bool or an int.
StrVal(s) == [t |-> "str", s |-> s, b |-> FALSE, n |-> 0]

BoolVal(b) == [t |-> "bool", s |-> <<>>, b |-> b, n |-> 0]

IntVal(n) == [t |-> "int", s |-> <<>>, b |-> FALSE, n |-> n]

Digits == <<"0", "1", "2", "3", "4", "5", "6", "7", "8", "9">>

\* str(val)
PyStr(v) ==
    CASE v.t = "str" -> v.s
      [] v.t = "bool" -> IF v.b THEN <<"T", "r", "u", "e">>
                                ELSE <<"F", "a", "l", "s", "e">>
      [] v.t = "int" -> <<Digits[v.n + 1]>>

\* the list in `str(val).lower() in [...]`
CheckWords ==
    { <<"x">>, <<"t", "r", "u", "e">>, <<"y", "e", "s">>, <<"o", "n">>, <<"1">>,
      <<"c", "h", "e", "c", "k", "e", "d">> }

\* A mutant: the comparison with the list is case-sensitive.
should_check_cased(val) == PyStr(val) \in CheckWords

should_check(val) == Lower(PyStr(val)) \in CheckWords

\* Widgets, named by xref.  as is the appearance state /AS of a button, on the
\* on-state get_on_state_from_ap finds in its appearance dictionary ("" when it
\* returns None), reports the on-state widget.on_state() gives ("" when it gives
\* None or True), pv the /V of its parent when it has one, group the parent it
\* shares with other widgets (0 when it shares none), value the field value of a
\* text widget.
MaxWidgets == 2

Xrefs == 1..MaxWidgets

TextWidget(v) ==
    [kind |-> "text", as |-> "", on |-> "", reports |-> "", parent |-> FALSE,
     pv |-> "", group |-> 0, value |-> v]

CheckBox(on, as) ==
    [kind |-> "checkbox", as |-> as, on |-> on, reports |-> on, parent |-> FALSE,
     pv |-> "", group |-> 0, value |-> <<>>]

Radio(on, as) ==
    [kind |-> "radio", as |-> as, on |-> on, reports |-> on, parent |-> TRUE,
     pv |-> as, group |-> 0, value |-> <<>>]

OldText == <<"o", "l", "d">>

Widgets ==
    { TextWidget(<<>>), TextWidget(OldText),
      CheckBox("On", "Off"), CheckBox("On", "On"), CheckBox("", "Off"),
      Radio("Choice1", "Off"), Radio("Choice1", "Choice1") }

FilledWidgets == {TextWidget(OldText), CheckBox("On", "On"), Radio("Choice1", "Choice1")}

\* Documents: widget w is on page w; the first widget is any widget, the others are
\* widgets that hold something.
PageOf(w) == w

Pdfs == {d \in [Xrefs -> Widgets] : \A w \in Xrefs \ {1} : d[w] \in FilledWidgets}

\* The rows of --csv.  A row that is missing, or whose row, page, xref or
\* coordinates do not parse, is not taken into csv_map.
MaxMapRows == 2

RowIds == 1..MaxMapRows

Rect(x1, y1, x2, y2) == [x1 |-> x1, y1 |-> y1, x2 |-> x2, y2 |-> y2]

\* widget.rect: every widget has the same box on its own page.
BoxWidth == 100

Box == Rect(0, 0, BoxWidth, 1)

\* The box of a row: the widget box as extraction saw it, moved right by s.
Drifts == {0, 19, 21}

Drifted(s) == Rect(s, 0, s + BoxWidth, 1)

NoRow == [ok |-> FALSE, page |-> 0, xref |-> 0, rect |-> Rect(0, 0, 0, 0)]

MapRow(p, x, rect) == [ok |-> TRUE, page |-> p, xref |-> x, rect |-> rect]

\* A row whose xref is a widget of its page carries that widget's box; a row whose
\* xref is not on its page carries a box near the box of the widget that is.
CsvRows ==
    {MapRow(w, w, Box) : w \in Xrefs}
        \cup {MapRow(px[1], px[2], Drifted(s)) :
                 px \in {q \in Xrefs \X Xrefs : q[1] # q[2]}, s \in Drifts}

CsvFiles ==
    {c \in [RowIds -> {NoRow} \cup CsvRows] :
        \A r \in RowIds \ {1} : c[r] \in {NoRow, MapRow(r, r, Box), MapRow(1, 1, Box)}}

\* csv_map after "Load Map"
csv_map(csv) == [r \in {r \in RowIds : csv[r].ok} |-> csv[r]]

\* The items of --plan.
MaxPlanLen == 2

PlanValues ==
    { StrVal(<<"X">>), StrVal(<<"t", "r", "u", "e">>), StrVal(<<"Y", "e", "s">>),
      StrVal(<<"O", "N">>), StrVal(<<"c", "h", "e", "c", "k", "e", "d">>),
      StrVal(<<>>), StrVal(<<"n", "o">>), IntVal(1), IntVal(0), BoolVal(FALSE) }

PlanItems == [row : RowIds, value : PlanValues]

Plans == UNION {[1..n -> PlanItems] : n \in 0..MaxPlanLen}

\* One run: the options given and the contents of the files they name.
NativeRuns == [argv : {NativeRequired, NativeArgv}, pdf : Pdfs, csv : CsvFiles, plan : Plans]

ctl == <<apiKey, library, mapDir, mapCsv, annotated, richCsv, pc, jdoc, status, jf,
         completed, hist, calls, prior, svcLog, evicted>>

\* parser.parse_args(); Load Map; Load Plan; doc = fitz.open(args.pdf)
NativeParse ==
    /\ npc.at = "start"
    /\ IF NativeMain(nativeIn.argv).rc # 0
         THEN npc' = At("exit2", 0) /\ UNCHANGED doc
         ELSE npc' = At("partA", 1) /\ doc' = nativeIn.pdf
    /\ UNCHANGED <<ctl, earlier, run, nativeIn, outActive, outFlat>>

is_button_field(w) == w.kind \in {"checkbox", "radio"}

\* A mutant: the on-state is taken to be the literal Yes.
OnStateAlwaysYes(w) == "Yes"

\* on_state = get_on_state_from_ap(doc, widget), then widget.on_state(), then "Yes"
OnState(w) ==
    IF w.on # "" THEN w.on
    ELSE IF w.reports # "" THEN w.reports
    ELSE "Yes"

\* Two widgets are kids of the same parent.
SharesParent(d, v, w) ==
    /\ v # w
    /\ d[v].parent /\ d[w].parent
    /\ d[v].group # 0 /\ d[v].group = d[w].group

\* The widget of the target's page whose xref is the target's, if there is one.
FindWidget(target) ==
    {w \in Xrefs : w = target.xref /\ PageOf(w) = target.page}

\* A mutant: the resolver remembers that it has run before and adds to the text it
\* wrote then.
FillWidgetRemembering(w, val) ==
    IF is_button_field(w)
      THEN IF should_check(val)
             THEN [w EXCEPT !.as = OnState(w),
                            !.pv = IF w.parent THEN OnState(w) ELSE @]
             ELSE [w EXCEPT !.as = "Off"]
      ELSE [w EXCEPT !.value = IF earlier = <<>> THEN PyStr(val)
                                                 ELSE PyStr(val) \o PyStr(val)]

\* The body of `if widget.xref == target_xref:` for one widget
FillWidget(w, val) ==
    IF is_button_field(w)
      THEN IF should_check(val)
             THEN [w EXCEPT !.as = OnState(w),
                            !.pv = IF w.parent THEN OnState(w) ELSE @]
             ELSE [w EXCEPT !.as = "Off"]
      ELSE [w EXCEPT !.value = PyStr(val)]

\* A mutant: the target's xref is looked for on every page.
NativeItemAnyPage ==
    /\ npc.at = "partA"
    /\ npc.i <= Len(nativeIn.plan)
    /\ LET item == nativeIn.plan[npc.i]
           map == csv_map(nativeIn.csv)
       IN  IF item.row \notin DOMAIN map
             THEN UNCHANGED doc
             ELSE doc' = [w \in Xrefs |->
                            IF w = map[item.row].xref
                              THEN FillWidget(doc[w], item.value)
                              ELSE doc[w]]
    /\ npc' = At("partA", npc.i + 1)
    /\ UNCHANGED <<ctl, earlier, run, nativeIn, outActive, outFlat>>

\* One turn of `for item in fill_data` in part A.  The /V written to the parent
\* of a button is the /V of every kid of that parent.
NativeItem ==
    /\ npc.at = "partA"
    /\ npc.i <= Len(nativeIn.plan)
    /\ LET item == nativeIn.plan[npc.i]
           map == csv_map(nativeIn.csv)
       IN  IF item.row \notin DOMAIN map
             THEN UNCHANGED doc
             ELSE LET found == FindWidget(map[item.row])
                  IN  doc' = [w \in Xrefs |->
                                IF w \in found
                                  THEN FillWidget(doc[w], item.value)
                                ELSE IF \E v \in found : SharesParent(doc, v, w)
                                  THEN [doc[w] EXCEPT
                                          !.pv = FillWidget(doc[CHOOSE v \in found : TRUE],
                                                            item.value).pv]
                                  ELSE doc[w]]
    /\ npc' = At("partA", npc.i + 1)
    /\ UNCHANGED <<ctl, earlier, run, nativeIn, outActive, outFlat>>

\* doc.save(args.out_active, garbage=0, deflate=True); doc.close()
NativeSaveActive ==
    /\ npc.at = "partA"
    /\ npc.i > Len(nativeIn.plan)
    /\ outActive' = doc
    /\ npc' = At("partB", 1)
    /\ UNCHANGED <<ctl, earlier, run, nativeIn, doc, outFlat>>

\* The widgets part B deletes and draws over: the targets of the items whose value
\* is in the list, when they are buttons.
Marked(active, csv, plan) ==
    {w \in Xrefs :
        \E i \in 1..Len(plan) :
            /\ plan[i].row \in DOMAIN csv_map(csv)
            /\ should_check(plan[i].value)
            /\ w \in FindWidget(csv_map(csv)[plan[i].row])
            /\ is_button_field(active[w])}

\* page.rect of page p: the first page is upright, the others lie on their side.
PageRect(p) ==
    IF p = 1 THEN [width |-> 612, height |-> 792] ELSE [width |-> 792, height |-> 612]

\* page.get_pixmap(dpi=200, alpha=False): the picture of a page shows its widget
\* as it is filled, or the mark drawn where the widget was deleted.
Pixmap(visual, marks, p) ==
    IF p \in marks
      THEN [mark |-> TRUE, as |-> "", value |-> <<>>]
      ELSE [mark |-> FALSE, as |-> visual[p].as, value |-> visual[p].value]

\* A mutant: the pages of the original are rasterized.
FlattenOriginal(visual, csv, plan) ==
    LET marks == Marked(nativeIn.pdf, csv, plan)
    IN  [marks |-> marks,
         widgets |-> {},
         pages |-> [p \in Xrefs |->
                      [width |-> PageRect(p).width, height |-> PageRect(p).height,
                       image |-> Pixmap(nativeIn.pdf, marks, p)]]]

\* doc_flat: a new document with, for every page of doc_visual in turn, a page of
\* the same width and height that holds the picture of that page and nothing else.
Flatten(visual, csv, plan) ==
    LET marks == Marked(visual, csv, plan)
    IN  [marks |-> marks,
         widgets |-> {},
         pages |-> [p \in Xrefs |->
                      [width |-> PageRect(p).width, height |-> PageRect(p).height,
                       image |-> Pixmap(visual, marks, p)]]]

\* Part B: reopen out_active, draw the marks, rasterize every page, save out_flat.
NativeFlatten ==
    /\ npc.at = "partB"
    /\ outFlat' = Flatten(outActive, nativeIn.csv, nativeIn.plan)
    /\ npc' = At("exit0", 0)
    /\ UNCHANGED <<ctl, earlier, run, nativeIn, doc, outActive>>

\* SpecNative: one run of native_fill.py on any of the inputs above.
InitNative ==
    /\ InitJobs /\ apiKey /\ NoOtherRun
    /\ nativeIn \in NativeRuns
    /\ doc = NoRun
    /\ outActive = NoRun
    /\ outFlat = NoRun
    /\ npc = At("start", 0)

NextNative ==
    \/ NativeParse
    \/ NativeItem
    \/ NativeSaveActive
    \/ NativeFlatten

SpecNative == InitNative /\ [][NextNative]_vars

\* SpecRerun: native_fill.py run again on a fresh copy of the same document with
\* the same mapping.  The items of the plan carry, beside row and value, the copy
\* of the row's page that a planner may add; the plan of the second run has the
\* same rows and values in the same order.
MaxRuns == 2

RerunValues == {StrVal(<<"X">>), StrVal(<<"n", "o">>)}

RerunItems == [row : RowIds, value : RerunValues, page : Xrefs]

RerunPlans == UNION {[1..n -> RerunItems] : n \in 0..MaxPlanLen}

RerunCsvFiles == {c \in CsvFiles : \A r \in RowIds : c[r].ok => c[r].rect = Box}

RerunInputs ==
    [argv : {NativeRequired}, pdf : Pdfs, csv : RerunCsvFiles, plan : RerunPlans]

\* The two plans have the same rows and values, item by item.
SameItems(p, q) ==
    /\ Len(p) = Len(q)
    /\ \A i \in 1..Len(p) : p[i].row = q[i].row /\ p[i].value = q[i].value

\* main() is entered again: what the run before left is kept aside, and the new
\* run starts from the original document.
NativeAgain(p) ==
    /\ npc.at = "exit0"
    /\ Len(earlier) < MaxRuns - 1
    /\ SameItems(p, nativeIn.plan)
    /\ earlier' = Append(earlier, [plan |-> nativeIn.plan, active |-> outActive,
                                   flat |-> outFlat])
    /\ nativeIn' = [nativeIn EXCEPT !.plan = p]
    /\ doc' = NoRun
    /\ outActive' = NoRun
    /\ outFlat' = NoRun
    /\ npc' = At("start", 0)
    /\ UNCHANGED <<ctl, run>>

InitRerun ==
    /\ InitJobs /\ apiKey /\ NoOtherRun
    /\ nativeIn \in RerunInputs
    /\ doc = NoRun
    /\ outActive = NoRun
    /\ outFlat = NoRun
    /\ npc = At("start", 0)

NextRerun ==
    \/ NextNative
    \/ \E p \in RerunPlans : NativeAgain(p)

SpecRerun == InitRerun /\ [][NextRerun]_vars

\* SpecButtons: native_fill.py on documents whose widgets are buttons: check boxes
\* whose appearance dictionary the program can or cannot read, and radio buttons
\* that are kids of one parent.

\* A button whose /AP is written inside the widget object, not as a reference:
\* int(ap_info[1].split()[0]) raises and get_on_state_from_ap returns None, while
\* widget.on_state() still finds the on-state.
InlineAp(w) == [w EXCEPT !.on = ""]

\* A radio button that is a kid of parent g, whose /V is pv.
GroupRadio(on, as, pv, g) == [Radio(on, as) EXCEPT !.pv = pv, !.group = g]

\* The on-state of the radio button with xref w.
Choice(w) == IF w = 1 THEN "Choice1" ELSE "Choice2"

ButtonWidgets(w) ==
    { CheckBox("On", "Off"), InlineAp(CheckBox("On", "Off")), CheckBox("", "Off"),
      CheckBox("Yes", "Off"), InlineAp(Radio("Choice1", "Off")) }
      \cup {GroupRadio(Choice(w), as, pv, 1) :
               as \in {"Off", Choice(w)}, pv \in {"Off"} \cup {Choice(v) : v \in Xrefs}}

\* In a document, the /V of a parent is the same for all its kids; it names the
\* kid that is on, and is Off when none is; at most one kid is on.
ButtonPdfs ==
    {d \in [Xrefs -> UNION {ButtonWidgets(w) : w \in Xrefs}] :
        /\ \A w \in Xrefs : d[w] \in ButtonWidgets(w)
        /\ \A v, w \in Xrefs :
              SharesParent(d, v, w) =>
                  /\ d[v].pv = d[w].pv
                  /\ ~(d[v].as # "Off" /\ d[w].as # "Off")
        /\ \A w \in Xrefs :
              d[w].group # 0 =>
                  IF d[w].as # "Off" THEN d[w].pv = d[w].as
                  ELSE \/ d[w].pv = "Off"
                       \/ \E v \in Xrefs : SharesParent(d, v, w) /\ d[v].as = d[w].pv}

ButtonValues ==
    {StrVal(<<"X">>), StrVal(<<"Y", "e", "s">>), StrVal(<<"n", "o">>), BoolVal(FALSE)}

ButtonPlans ==
    UNION {[1..n -> [row : RowIds, value : ButtonValues]] : n \in 0..MaxPlanLen}

ButtonRuns ==
    [argv : {NativeRequired}, pdf : ButtonPdfs, csv : RerunCsvFiles, plan : ButtonPlans]

InitButtons ==
    /\ InitJobs /\ apiKey /\ NoOtherRun
    /\ nativeIn \in ButtonRuns
    /\ doc = NoRun
    /\ outActive = NoRun
    /\ outFlat = NoRun
    /\ npc = At("start", 0)

SpecButtons == InitButtons /\ [][NextNative]_vars

--------------------------------------------------------------------------
\* overlay_fill.py, the fill step of fill_form_pipeline.py: the values of the JSON
\* mapping are drawn on the pages of the document.  An entry carries row, value
\* and the page and box copied from the row of the CSV.
MaxPages == 2

OverlayValues == {StrVal(<<"a">>), StrVal(<<>>), IntVal(1)}

OverlayEntries ==
    [row : RowIds, value : OverlayValues, page : 1..(MaxPages + 1), x1 : {0, 21},
     y1 : {0}, y2 : {10}]

OverlayPlans == UNION {[1..n -> OverlayEntries] : n \in 0..MaxPlanLen}

OverlayRun(mapping, at, i, drawn) ==
    [prog |-> "overlay", mapping |-> mapping, at |-> at, i |-> i, drawn |-> drawn]

\* doc = fitz.open(pdf_in)
OverlayOpen ==
    /\ run.at = "start"
    /\ run' = [run EXCEPT !.at = "loop", !.i = 1]
    /\ UNCHANGED <<ctl, native, earlier>>

\* draw_text(page, x1, y_center, value): what one entry puts on the document
OverlayText(entry) ==
    [page |-> entry.page, x |-> entry.x1 + 10, y |-> (entry.y1 + entry.y2) \div 2,
     text |-> PyStr(entry.value)]

\* One turn of `for entry in mapping`: an entry whose page is not in the document
\* or whose value is None or "" draws nothing.
OverlayEntry ==
    /\ run.at = "loop"
    /\ run.i <= Len(run.mapping)
    /\ LET entry == run.mapping[run.i]
       IN  run' = [run EXCEPT
                     !.i = @ + 1,
                     !.drawn = IF entry.page - 1 < 0 \/ entry.page - 1 >= MaxPages
                                 THEN @
                               ELSE IF entry.value = StrVal(<<>>)
                                 THEN @
                               ELSE Append(@, OverlayText(entry))]
    /\ UNCHANGED <<ctl, native, earlier>>

\* doc.save(pdf_out)
OverlaySave ==
    /\ run.at = "loop"
    /\ run.i > Len(run.mapping)
    /\ run' = [run EXCEPT !.at = "saved"]
    /\ UNCHANGED <<ctl, native, earlier>>

\* overlay_pdf is called again on the same document, with a mapping that has the
\* same rows and values in the same order.
OverlayAgain(p) ==
    /\ run.at = "saved"
    /\ Len(earlier) < MaxRuns - 1
    /\ SameItems(p, run.mapping)
    /\ earlier' = Append(earlier, [plan |-> run.mapping, drawn |-> run.drawn])
    /\ run' = OverlayRun(p, "start", 0, <<>>)
    /\ UNCHANGED <<ctl, native>>

InitOverlay ==
    /\ InitJobs /\ apiKey /\ NativeIdle
    /\ earlier = <<>>
    /\ run \in {OverlayRun(p, "start", 0, <<>>) : p \in OverlayPlans}

NextOverlay ==
    \/ OverlayOpen
    \/ OverlayEntry
    \/ OverlaySave
    \/ \E p \in OverlayPlans : OverlayAgain(p)

SpecOverlay == InitOverlay /\ [][NextOverlay]_vars

\* Strings of the documents and the mapping files are sequences of characters.
Whitespace == {" "}

\* str.lstrip(chars), str.rstrip(chars), str.strip(chars), str.strip()
RECURSIVE LStrip(_, _)
LStrip(s, chars) ==
    IF s # <<>> /\ Head(s) \in chars THEN LStrip(Tail(s), chars) ELSE s

RECURSIVE RStrip(_, _)
RStrip(s, chars) ==
    IF s # <<>> /\ s[Len(s)] \in chars
      THEN RStrip(SubSeq(s, 1, Len(s) - 1), chars)
      ELSE s

StripChars(s, chars) == LStrip(RStrip(s, chars), chars)

Strip(s) == StripChars(s, Whitespace)

\* The length of the longest prefix of s that has no character of chars.
RECURSIVE Span(_, _)
Span(s, chars) ==
    IF s = <<>> \/ Head(s) \in chars THEN 0 ELSE 1 + Span(Tail(s), chars)

\* str.split(): the runs of characters between whitespace
RECURSIVE Split(_)
Split(s) ==
    LET t == LStrip(s, Whitespace)
        n == Span(t, Whitespace)
    IN  IF t = <<>> THEN <<>>
        ELSE <<SubSeq(t, 1, n)>> \o Split(SubSeq(t, n + 1, Len(t)))

\* str.split("."): the pieces between dots, empty ones included
RECURSIVE SplitDot(_)
SplitDot(s) ==
    LET n == Span(s, {"."})
    IN  IF n = Len(s) THEN <<s>>
        ELSE <<SubSeq(s, 1, n)>> \o SplitDot(SubSeq(s, n + 2, Len(s)))

\* " ".join(parts)
RECURSIVE Join(_)
Join(parts) ==
    IF parts = <<>> THEN <<>>
    ELSE IF Len(parts) = 1 THEN parts[1]
    ELSE parts[1] \o <<" ">> \o Join(Tail(parts))

\* sorted(S, key): the members of a set of positions in the order of their keys,
\* equal keys in the order of the positions (the sort is stable).
RECURSIVE SortedBy(_, _)
SortedBy(S, key) ==
    IF S = {} THEN <<>>
    ELSE LET m == CHOOSE i \in S :
                    \A j \in S : key[i] < key[j] \/ (key[i] = key[j] /\ i <= j)
         IN  <<m>> \o SortedBy(S \ {m}, key)

--------------------------------------------------------------------------
\* extract_form_fields.py, in its two versions: the one of src/scripts, which
\* app.py runs, and the one of src, which belongs to the pipeline run by hand.
\* A document is a sequence of pages; a page has its printed words, in the order
\* get_text("words") gives them, and its widgets, in the order page.widgets()
\* gives them.
MaxPageWidgets == 2

FitzRect(x0, y0, x1, y1) == [x0 |-> x0, y0 |-> y0, x1 |-> x1, y1 |-> y1]

\* The k-th widget of a page sits on the k-th line of the page.
LineRect(k) == FitzRect(300, 100 * k, 400, 100 * k + 10)

Word(x0, x1, txt) == [x0 |-> x0, y0 |-> 100, x1 |-> x1, y1 |-> 110, txt |-> txt]

\* What is printed on a page, all of it on the first line: nothing; "b:" and, on
\* its left, "A", the later word first; "T" alone; a word too far to the left.
NoWords == <<>>

TwoWords == <<Word(240, 280, <<"b", ":">>), Word(200, 230, <<"A">>)>>

OneWord == <<Word(250, 290, <<"T">>)>>

FarWord == <<Word(10, 40, <<"Z">>)>>

PageTexts == {NoWords, TwoWords, OneWord, FarWord}

\* /TU of a widget: none, one with a run of spaces inside, one of spaces only.
Tooltips == {<<>>, <<"a", " ", " ", "b">>, <<" ">>}

FieldNames == {<<>>, <<"f">>}

\* field_type 7 is a text field, 2 a check box.
FormWidget(tu, name, type, k) ==
    [tu |-> tu, field_name |-> name, field_type |-> type, rect |-> LineRect(k)]

FirstWidgets == {FormWidget(tu, n, <<"7">>, 1) : tu \in Tooltips, n \in FieldNames}

OtherWidgets(k) ==
    {FormWidget(<<>>, <<"g", ".", " ", "h">>, <<"2">>, k),
     FormWidget(<<"t">>, <<>>, <<"2">>, k)}

FirstPages ==
    {[words |-> t, widgets |-> ws] :
        t \in PageTexts,
        ws \in {<<>>} \cup {<<w>> : w \in FirstWidgets}
                 \cup {<<w, v>> : w \in FirstWidgets, v \in OtherWidgets(2)}}

OtherPages ==
    {[words |-> t, widgets |-> ws] :
        t \in {NoWords, OneWord},
        ws \in {<<>>} \cup {<<w>> : w \in OtherWidgets(1)}}

FormPdfs == {<<p>> : p \in FirstPages} \cup (FirstPages \X OtherPages)

Variants == {"scripts", "src"}

max_dist == 200

vert_pad == 2

\* fitz.Rect.contains(fitz.Point(wx, wy)), with the point given by twice its
\* coordinates: wx and wy are halves.
Contains(r, wx2, wy2) ==
    /\ 2 * r.x0 <= wx2 /\ wx2 < 2 * r.x1
    /\ 2 * r.y0 <= wy2 /\ wy2 < 2 * r.y1

\* get_widget_label of src/scripts/extract_form_fields.py
get_widget_label(page, w) ==
    LET tooltip == Strip(w.tu)
        r == w.rect
        search == FitzRect(r.x0 - max_dist, r.y0 - vert_pad, r.x0, r.y1 + vert_pad)
        words == page.words
        candidates ==
            {i \in 1..Len(words) :
                Contains(search, words[i].x0 + words[i].x1, words[i].y0 + words[i].y1)}
        nearest == SortedBy(candidates, [i \in candidates |-> 0 - words[i].x1])
    IN  IF tooltip # <<>> THEN Join(Split(tooltip))
        ELSE IF candidates # {} THEN Strip(words[nearest[1]].txt)
        ELSE IF w.field_name # <<>> THEN Strip(w.field_name)
        ELSE <<>>

\* get_widget_label of src/extract_form_fields.py
get_widget_label_src(page, w) ==
    LET tooltip == Strip(w.tu)
        words == page.words
        x0_box == w.rect.x0
        y0_box == w.rect.y0 - vert_pad
        y1_box == w.rect.y1 + vert_pad
        left_words ==
            {i \in 1..Len(words) :
                /\ words[i].x1 < x0_box - 5 /\ words[i].x1 > x0_box - max_dist
                /\ words[i].y1 > y0_box /\ words[i].y0 < y1_box}
        order == SortedBy(left_words, [i \in left_words |-> words[i].x0])
        label == StripChars(Join([n \in 1..Len(order) |-> words[order[n]].txt]),
                            {" ", ":"})
    IN  IF tooltip # <<>> THEN Join(Split(tooltip))
        ELSE IF left_words # {} /\ label # <<>> THEN Join(Split(label))
        ELSE w.field_name

Unlabeled == <<"U", "N", "L", "A", "B", "E", "L", "E", "D">>

\* One line of the CSV: row, heading, subheading, form_entry_description,
\* x1, y1, x2, y2, page.
CsvRow(row, heading, subheading, description, rect, page) ==
    [row |-> row, heading |-> heading, subheading |-> subheading,
     form_entry_description |-> description,
     x1 |-> rect.x0, y1 |-> rect.y0, x2 |-> rect.x1, y2 |-> rect.y1, page |-> page]

\* rows.append([...]) of src/scripts/extract_form_fields.py
ScriptsRow(row_id, page, w, pno) ==
    LET found == get_widget_label(page, w)
        label == IF found # <<>> THEN found ELSE Unlabeled
    IN  CsvRow(row_id, label, <<>>,
               Strip(w.field_type \o <<" ">> \o w.field_name), w.rect, pno)

\* rows.append([...]) of src/extract_form_fields.py
SrcRow(row_idx, page, w, page_no) ==
    LET parts == SplitDot(w.field_name)
    IN  CsvRow(row_idx, Strip(parts[1]),
               IF Len(parts) > 1 THEN Strip(parts[2]) ELSE <<>>,
               get_widget_label_src(page, w), w.rect, page_no)

\* A run of the program: the version, the document, the position in it (page pno,
\* widget k of the page), the number of rows so far, the rows, and what it has
\* written: the CSV and the landmarks on the helper document.  The later stages
\* follow in the same record: label_from_vision.py of the same version (its
\* position, the answer of the service to its one request, descr_map and the
\* <stem>_rich.csv it writes), form_mapper_GUI.py (<stem>_corrected.csv) and
\* generate_fill_json.py (the summary it makes of the mapping it reads).
ExtractRun(variant, pdf) ==
    [prog |-> "extract", variant |-> variant, pdf |-> pdf, at |-> "start",
     pno |-> 1, k |-> 1, row_id |-> 0, rows |-> <<>>, csv |-> <<>>,
     annotated |-> <<>>, files |-> {}, label |-> "idle", answer |-> <<>>,
     descr_map |-> <<>>, rich |-> <<>>, corrected |-> <<>>, planned |-> FALSE,
     summary |-> <<>>]

Extracting == run.prog = "extract"

\* doc = fitz.open(pdf_path), with the count of the rows going on from where the
\* run before this one left it.
ExtractOpenCountingOn ==
    /\ Extracting
    /\ run.at = "start"
    /\ run' = [run EXCEPT !.at = "pages",
                          !.row_id = IF earlier = <<>> THEN 0
                                     ELSE Len(earlier[Len(earlier)].csv)]
    /\ UNCHANGED <<ctl, native, earlier>>

\* doc = fitz.open(pdf_path); rows = []; row_id = 0
ExtractOpen ==
    /\ Extracting
    /\ run.at = "start"
    /\ run' = [run EXCEPT !.at = "pages"]
    /\ UNCHANGED <<ctl, native, earlier>>

\* One turn of `for w in widgets`, with the count of the rows kept for each page.
ExtractWidgetRestartingOnPage ==
    /\ Extracting
    /\ run.at = "pages"
    /\ run.pno <= Len(run.pdf)
    /\ run.k <= Len(run.pdf[run.pno].widgets)
    /\ LET page == run.pdf[run.pno]
           w == page.widgets[run.k]
           id == run.k
       IN  run' = [run EXCEPT
                     !.row_id = id,
                     !.k = @ + 1,
                     !.rows = Append(@, IF run.variant = "scripts"
                                          THEN ScriptsRow(id, page, w, run.pno)
                                          ELSE SrcRow(id, page, w, run.pno))]
    /\ UNCHANGED <<ctl, native, earlier>>

\* One turn of `for w in widgets`: the next row id goes to the next widget.
ExtractWidget ==
    /\ Extracting
    /\ run.at = "pages"
    /\ run.pno <= Len(run.pdf)
    /\ run.k <= Len(run.pdf[run.pno].widgets)
    /\ LET page == run.pdf[run.pno]
           w == page.widgets[run.k]
           id == run.row_id + 1
       IN  run' = [run EXCEPT
                     !.row_id = id,
                     !.k = @ + 1,
                     !.rows = Append(@, IF run.variant = "scripts"
                                          THEN ScriptsRow(id, page, w, run.pno)
                                          ELSE SrcRow(id, page, w, run.pno))]
    /\ UNCHANGED <<ctl, native, earlier>>

\* The widgets of the page are used up: the next turn of the loop over the pages.
ExtractNextPage ==
    /\ Extracting
    /\ run.at = "pages"
    /\ run.pno <= Len(run.pdf)
    /\ run.k > Len(run.pdf[run.pno].widgets)
    /\ run' = [run EXCEPT !.pno = @ + 1, !.k = 1]
    /\ UNCHANGED <<ctl, native, earlier>>

\* After the last page the CSV is written; the version of src raises
\* RuntimeError instead when there is no row.
ExtractWriteCsv ==
    /\ Extracting
    /\ run.at = "pages"
    /\ run.pno > Len(run.pdf)
    /\ run' = IF run.variant = "src" /\ run.rows = <<>>
                THEN [run EXCEPT !.at = "exit1"]
                ELSE [run EXCEPT !.at = "annotate", !.csv = run.rows,
                                 !.files = @ \cup {"csv"}]
    /\ UNCHANGED <<ctl, native, earlier>>

\* annotate_pdf: the number of each row at the centre of its box, on its page
Landmark(r) ==
    [page |-> r.page, label |-> r.row, cx |-> (r.x1 + r.x2) \div 2,
     cy |-> (r.y1 + r.y2) \div 2]

ExtractAnnotate ==
    /\ Extracting
    /\ run.at = "annotate"
    /\ run' = [run EXCEPT !.at = "exit0",
                          !.annotated = [n \in 1..Len(run.rows) |-> Landmark(run.rows[n])],
                          !.files = @ \cup {"annotated"}]
    /\ UNCHANGED <<ctl, native, earlier>>

--------------------------------------------------------------------------
\* label_from_vision.py, in its two versions: the one of src/scripts asks Gemini,
\* the one of src asks OpenAI.  Both read the CSV of the extraction, ask for the
\* rows in batches of BATCH_SIZE, which no mapping here exceeds, and write
\* <stem>_rich.csv.

\* An id the service may describe although no row has it.
Unrequested == 9

Descriptions == {<<>>, <<"d">>, <<"x">>}

\* What the service says about one batch: a description for some of the ids.
\* "x" is what it says about the id that was not asked for, and only the first
\* row is ever given an empty description.
Answers(ids) ==
    UNION {[S -> Descriptions] : S \in SUBSET (ids \cup {Unrequested})}

AnswersFor(rows) ==
    {a \in Answers({rows[n].row : n \in 1..Len(rows)}) :
        \A k \in DOMAIN a :
            /\ a[k] = <<"x">> <=> k = Unrequested
            /\ a[k] = <<>> => k = 1}

\* call_openai_vision: the lines of the reply whose key is one of the ids asked
\* for, and "" for every id asked for that has no line.
call_openai_vision(batch_rows, answer) ==
    [k \in {batch_rows[n].row : n \in 1..Len(batch_rows)} |->
        IF k \in DOMAIN answer THEN answer[k] ELSE <<>>]

\* dict.get(key, default)
Get(map, key, default) == IF key \in DOMAIN map THEN map[key] ELSE default

\* df = pd.read_csv(csv_path); records = df.to_dict(orient="records")
LabelLoad(answer) ==
    /\ Extracting
    /\ run.at = "exit0"
    /\ run.label = "idle"
    /\ run' = [run EXCEPT !.label = "batches", !.answer = answer]
    /\ UNCHANGED <<ctl, native, earlier>>

\* The loop over the batches.  With no record there is no batch.  In the version
\* of src/scripts the call of the first batch evaluates the name image_parts,
\* which main never binds: NameError ends the run.  In the version of src every
\* row of the batch gets batch_map.get(rid, "").
LabelBatches ==
    /\ Extracting
    /\ run.label = "batches"
    /\ run' =
         IF run.csv = <<>> THEN [run EXCEPT !.label = "save"]
         ELSE IF run.variant = "scripts" THEN [run EXCEPT !.label = "exit1"]
         ELSE LET batch_map == call_openai_vision(run.csv, run.answer)
              IN  [run EXCEPT
                     !.label = "save",
                     !.descr_map = [k \in {run.csv[n].row : n \in 1..Len(run.csv)} |->
                                       Get(batch_map, k, <<>>)]]
    /\ UNCHANGED <<ctl, native, earlier>>

\* One row of <stem>_rich.csv: the row of the CSV and its rich_description.
RichRow(r, description) ==
    [row |-> r.row, heading |-> r.heading, subheading |-> r.subheading,
     form_entry_description |-> r.form_entry_description,
     x1 |-> r.x1, y1 |-> r.y1, x2 |-> r.x2, y2 |-> r.y2, page |-> r.page,
     rich_description |-> description]

\* df["rich_description"] = df["row"].astype(str).map(descr_map).fillna("");
\* df.to_csv(out_path, index=False)
LabelSave ==
    /\ Extracting
    /\ run.label = "save"
    /\ run' = [run EXCEPT
                 !.label = "exit0",
                 !.rich = [n \in 1..Len(run.csv) |->
                              RichRow(run.csv[n],
                                      Get(run.descr_map, run.csv[n].row, <<>>))],
                 !.files = @ \cup {"rich"}]
    /\ UNCHANGED <<ctl, native, earlier>>

--------------------------------------------------------------------------
\* form_mapper_GUI.py: the window is opened on <stem>_rich.csv; the user moves the
\* box of one field of the page shown and types over its description, or changes
\* nothing, and submits.
Moves == {0, 5}

Typed == {<<" ", "e">>}

\* FieldGraphics.sync_field_data for the field that was changed
sync_field_data(field, dx, text) ==
    [field EXCEPT !.x1 = @ + dx, !.x2 = @ + dx, !.rich_description = Strip(text)]

\* on_submit: every field loaded, in the order of the row numbers
on_submit(fields) ==
    LET order == SortedBy(DOMAIN fields, [n \in DOMAIN fields |-> fields[n].row])
    IN  [n \in 1..Len(order) |-> fields[order[n]]]

GuiSubmit(i, dx, text) ==
    /\ Extracting
    /\ "rich" \in run.files
    /\ "corrected" \notin run.files
    /\ i \in 0..Len(run.rich)
    /\ i = 0 => dx = 0
    /\ LET fields == [n \in 1..Len(run.rich) |->
                         IF n = i THEN sync_field_data(run.rich[n], dx, text)
                                  ELSE run.rich[n]]
       IN  run' = [run EXCEPT !.corrected = on_submit(fields),
                              !.files = @ \cup {"corrected"}]
    /\ UNCHANGED <<ctl, native, earlier>>

\* generate_fill_json.py load_rich_map_summary: one line for each row of the
\* mapping it is given, <stem>_rich.csv or <stem>_corrected.csv.
load_rich_map_summary(rows) ==
    [n \in 1..Len(rows) |->
        [id |-> rows[n].row, heading |-> rows[n].heading,
         subheading |-> rows[n].subheading,
         rich_description |-> rows[n].rich_description]]

PlanSummary(file) ==
    /\ Extracting
    /\ file \in run.files \cap {"rich", "corrected"}
    /\ ~run.planned
    /\ run' = [run EXCEPT
                 !.planned = TRUE,
                 !.summary = load_rich_map_summary(
                                 IF file = "rich" THEN run.rich ELSE run.corrected)]
    /\ UNCHANGED <<ctl, native, earlier>>

\* The program is run again on the same document, before any later stage.
ExtractAgain ==
    /\ Extracting
    /\ run.at = "exit0"
    /\ run.label = "idle"
    /\ Len(earlier) < MaxRuns - 1
    /\ earlier' = Append(earlier, [pdf |-> run.pdf, csv |-> run.csv,
                                   annotated |-> run.annotated])
    /\ run' = ExtractRun(run.variant, run.pdf)
    /\ UNCHANGED <<ctl, native>>

InitExtract ==
    /\ InitJobs /\ apiKey /\ NativeIdle
    /\ earlier = <<>>
    /\ run \in {ExtractRun(v, pdf) : v \in Variants, pdf \in FormPdfs}

NextExtract ==
    \/ ExtractOpen
    \/ ExtractWidget
    \/ ExtractNextPage
    \/ ExtractWriteCsv
    \/ ExtractAnnotate
    \/ ExtractAgain
    \/ \E a \in AnswersFor(run.csv) : LabelLoad(a)
    \/ LabelBatches
    \/ LabelSave
    \/ \E i \in 0..(MaxPages * MaxPageWidgets), dx \in Moves, text \in Typed :
          GuiSubmit(i, dx, text)
    \/ \E file \in {"rich", "corrected"} : PlanSummary(file)

SpecExtract == InitExtract /\ [][NextExtract]_vars

\* SpecFillCtl: SpecCtl with native_fill.py of src/scripts as the fill program.  It
\* is run with the options run_pipeline passes, which it rejects, so the steps
\* that store the outputs are never reached.
NextFillCtl ==
    \/ \E j \in Jobs :
        \/ MapPhaseAny(j)
        \/ \E r \in StageAny : PlanAny(j, r)
        \/ Fill(j, NativeMain(NativeArgv))
    \/ Endpoint

SpecFillCtl == InitCtl /\ [][NextFillCtl]_vars

--------------------------------------------------------------------------
\* SpecPoll: the jobs of app.py and a client polling their status.  run holds the
\* answer to the last poll.

\* No poll has been answered.
NoPoll == [prog |-> "job_status", job |-> 0, code |-> 0, state |-> ""]

\* The worker thread of job j is running: it has status writes ahead of it.
Rewriting(j) == pc[j] \notin {"none", "rejected", "finished"}

\* read_status: "unknown" when status.json does not exist, else
\* json.loads(p.read_text()).  write_status is Path.write_text, which truncates
\* status.json and then writes it: a read that falls between the two (torn) gets
\* an empty or cut text, json.loads raises and the request is answered with 500.
read_status(j, torn) ==
    IF status[j] = NoStatus
      THEN [code |-> 200, state |-> NoStatus.state]
      ELSE IF torn
             THEN [code |-> 500, state |-> ""]
             ELSE [code |-> 200, state |-> status[j].state]

\* job_status: 404 unless the job directory exists, else read_status(job_dir).
\* The request runs beside the worker thread; torn: it reads status.json while
\* the thread is rewriting it.
JobStatus(j, torn) ==
    /\ torn => Rewriting(j)
    /\ run' = IF ~jf[j].dir
                THEN [NoPoll EXCEPT !.job = j, !.code = 404]
                ELSE LET r == read_status(j, torn)
                     IN  [NoPoll EXCEPT !.job = j, !.code = r.code, !.state = r.state]
    /\ UNCHANGED <<ctl, native, earlier>>

InitPoll == InitJobs /\ apiKey /\ NativeIdle /\ earlier = <<>> /\ run = NoPoll

NextPoll ==
    \E j \in Jobs :
        \/ MapPhaseAny(j)
        \/ \E r \in StageAny : PlanAny(j, r)
        \/ FillPhaseAny(j)
        \/ \E torn \in BOOLEAN : JobStatus(j, torn)

SpecPoll == InitPoll /\ [][NextPoll]_vars

--------------------------------------------------------------------------
\* Properties.

Ran(j, stage) == \E i \in 1..Len(calls[j]) : calls[j][i].stage = stage

RanOk(j, stage) ==
    \E i \in 1..Len(calls[j]) : calls[j][i].stage = stage /\ calls[j][i].ok

\* Two jobs overlap when neither had ended before the other was created.
Concurrent(j, k) ==
    /\ j # k
    /\ pc[j] # "none" /\ pc[k] # "none"
    /\ j \notin prior[k] /\ k \notin prior[j]

\* C1: jobs running concurrently on one document identity (never evicted) run the
\* extraction stage once between them, and the labeling stage once between them.
C1_SingleExtractionAndLabeling ==
    \A j, k \in Jobs :
        (Concurrent(j, k) /\ jdoc[j] = jdoc[k] /\ jdoc[j] \notin evicted)
            => /\ ~(Ran(j, "extract") /\ Ran(k, "extract"))
               /\ ~(Ran(j, "label") /\ Ran(k, "label"))

\* C2: once the state of a job is done or error, no step changes it.
C2_TerminalStatesNeverExited ==
    [][\A j \in Jobs :
          status[j].state \in {"done", "error"} => status'[j].state = status[j].state]_vars

\* A job whose copy into the completed store failed after filled.pdf was stored.
C2_LateFailure ==
    \E j \in Jobs : status[j].state = "error" /\ "filled.pdf" \in completed[j]

RECURSIVE Collapse(_)
\* The states written, a repeated write of the same state counted once.
Collapse(s) ==
    IF Len(s) <= 1 THEN s
    ELSE IF s[1] = s[2] THEN Collapse(Tail(s))
    ELSE <<s[1]>> \o Collapse(Tail(s))

IsPrefix(s, t) == Len(s) <= Len(t) /\ \A i \in 1..Len(s) : s[i] = t[i]

MappedPath == <<"queued", "running", "needs_mapping", "running", "done">>

CachedPath == <<"queued", "running", "done">>

OnPath(s) == IsPrefix(s, MappedPath) \/ IsPrefix(s, CachedPath)

LegalStates(s) ==
    \/ OnPath(s)
    \/ /\ Len(s) >= 2
       /\ s[Len(s)] = "error"
       /\ s[Len(s) - 1] \in {"queued", "running", "needs_mapping"}
       /\ OnPath(SubSeq(s, 1, Len(s) - 1))

\* C3: the states written for a job are a prefix of queued, running,
\* [needs_mapping, running], done, or such a prefix cut short by one error written
\* after queued, running or needs_mapping.
C3_StateSequence ==
    \A j \in Jobs : LegalStates(Collapse(hist[j]))

\* A job that went through needs_mapping and reached done.
C3_MappedAndDone ==
    \E j \in Jobs : Collapse(hist[j]) = MappedPath

StageOrder == <<"extract", "label", "plan", "fill">>

\* C4: the stages of a job run in the order extract, label, plan, fill (plan, fill
\* on a cached mapping), each after its predecessor returned 0 and with the
\* predecessor's output file in place.
C4_StagesInOrderOnOutputs ==
    \A j \in Jobs :
        LET c == calls[j]
            stages == [i \in 1..Len(c) |-> c[i].stage]
        IN  /\ \/ IsPrefix(stages, StageOrder)
               \/ IsPrefix(stages, SubSeq(StageOrder, 3, 4))
            /\ \A i \in 1..Len(c) : c[i].ready /\ (i < Len(c) => c[i].ok)

StageMessage(stage) ==
    CASE stage = "extract" -> "extract_form_gem4 failed"
      [] stage = "label" -> "label_from_vision failed"
      [] stage = "plan" -> "generate_fill_json failed"
      [] stage = "fill" -> "native_fill failed"

EndedInError(at, st, message) ==
    /\ at = "finished"
    /\ st.state = "error"
    /\ st.message = message

Failed(j, message) == EndedInError(pc[j], status[j], message)

\* C5: a stage program that returns non-zero, or a copy of the mapping outputs that
\* does not complete, puts the job in error with the message of that stage, and
\* the job is over: no stage runs and no status is written afterwards.
C5_StageFailureEndsJob ==
    [][\A j \in Jobs :
          /\ (Len(calls'[j]) > Len(calls[j]) /\ ~calls'[j][Len(calls'[j])].ok)
                => EndedInError(pc'[j], status'[j],
                                StageMessage(calls'[j][Len(calls'[j])].stage))
          /\ (pc[j] = "move" /\ pc'[j] \notin {"move", "label"})
                => EndedInError(pc'[j], status'[j], "Failed to move mapping outputs")
          /\ (pc[j] = "move" /\ pc'[j] = "label")
                => /\ jf[j].mapCsv >= 0 => mapCsv'[jdoc[j]].by = j
                   /\ jf[j].finalPdf => annotated'[jdoc[j]].by = j
          /\ pc[j] = "finished"
                => /\ pc'[j] = "finished"
                   /\ calls'[j] = calls[j]
                   /\ hist'[j] = hist[j]]_vars

\* A job ended by the planning program's non-zero return code after three stages.
C5_PlanFailed ==
    \E j \in Jobs :
        /\ Len(calls[j]) = 3
        /\ ~calls[j][3].ok
        /\ Failed(j, "generate_fill_json failed")

\* C6: a job whose planning request raised or came back unusable ends in error.
C6_ServiceFailureEndsInError ==
    \A j \in Jobs :
        (svcLog[j] \in {"raise", "empty"} /\ pc[j] = "finished")
            => status[j].state = "error"

\* C7: a job on a document with no widgets that has run extraction is in error with
\* the extraction message, has no mapping file, and no job enriches the identity.
C7_ZeroFieldDocumentFails ==
    \A j \in Jobs :
        (NWidgets(jdoc[j]) = 0 /\ Readable(jdoc[j]) /\ Ran(j, "extract"))
            => /\ Failed(j, StageMessage("extract"))
               /\ jf[j].mapCsv < 0
               /\ richCsv[jdoc[j]].by \notin Jobs

Editable == "filled.pdf"

Flattened == "filled_flat.pdf"

\* C8: a job in state done has the editable and the flattened document in the
\* completed store, and an ended job without them is in error.
C8_DoneHasBothOutputs ==
    \A j \in Jobs :
        /\ status[j].state = "done" => {Editable, Flattened} \subseteq completed[j]
        /\ (pc[j] = "finished" /\ ~({Editable, Flattened} \subseteq completed[j]))
              => status[j].state = "error"

\* C9: a job created after a job on the same document (never evicted) ended in
\* error does not run a mapping stage that had completed in the failed job:
\* extraction when the failed job got as far as labeling, labeling when it returned 0.
C9_RetryRepeatsOnlyFailedStage ==
    \A j, k \in Jobs :
        (j \in prior[k] /\ jdoc[j] = jdoc[k] /\ jdoc[j] \notin evicted
           /\ status[j].state = "error")
            => /\ (RanOk(j, "extract") /\ Ran(j, "label")) => ~Ran(k, "extract")
               /\ RanOk(j, "label") => ~Ran(k, "label")

\* C10: while the map_rich.csv that a labeling stage wrote for an identity exists,
\* no job writes map.csv, annotated.pdf or map_rich.csv of that identity.
C10_EnrichedMappingNotRewritten ==
    [][\A d \in Docs :
          (richCsv[d].ex /\ richCsv[d].by \in Jobs) =>
              /\ mapCsv'[d] # mapCsv[d] => mapCsv'[d].by \notin Jobs
              /\ annotated'[d] # annotated[d] => annotated'[d].by \notin Jobs
              /\ richCsv'[d] # richCsv[d] => richCsv'[d].by \notin Jobs]_vars

Wrote(j, state) == \E i \in 1..Len(hist[j]) : hist[j][i] = state

\* C11: a job has written needs_mapping only if its own cache check found no
\* map_rich.csv (it went on to run extraction) and its own labeling stage returned
\* 0; and while the state is needs_mapping the record carries pdf_id and the links
\* to the annotated rendering and the rich mapping.
C11_NeedsMappingOnlyAfterOwnLabeling ==
    \A j \in Jobs :
        /\ Wrote(j, "needs_mapping") => (Ran(j, "extract") /\ RanOk(j, "label"))
        /\ status[j].state = "needs_mapping" => status[j].extra = MappingLinks

\* A job in needs_mapping beside a job that found the mapping cached and has gone
\* on to the planning stage without it.
C11_MappedAndCachedJobs ==
    \E j, k \in Jobs :
        /\ status[j].state = "needs_mapping"
        /\ Ran(k, "plan") /\ ~Ran(k, "extract") /\ ~Wrote(k, "needs_mapping")

\* C12: an identity is enriched (mapping_exists) only if a labeling stage run for
\* that identity has returned 0.
C12_EnrichedOnlyByLabeling ==
    \A d \in Docs :
        mapping_exists(d) => \E j \in Jobs : jdoc[j] = d /\ RanOk(j, "label")

\* The job enters error in this step.
EntersError(j) == status[j].state # "error" /\ status'[j].state = "error"

\* C13: the step in which a job enters error changes no other job's record and
\* removes nothing: the library, the mapping directories and every mapping file in
\* place stay, map_rich.csv is left as it was (an enriched identity stays
\* enriched), the completed store is unchanged and no working file of the job is
\* removed.
C13_ErrorRollsNothingBack ==
    [][\A j \in Jobs :
          EntersError(j) =>
              /\ \A k \in Jobs \ {j} :
                    status'[k] = status[k] /\ pc'[k] = pc[k] /\ jf'[k] = jf[k]
              /\ library' = library /\ mapDir' = mapDir
              /\ \A d \in Docs :
                    /\ mapCsv[d].ex => mapCsv'[d].ex
                    /\ annotated[d].ex => annotated'[d].ex
              /\ richCsv' = richCsv
              /\ completed' = completed
              /\ jf[j].input => jf'[j].input
              /\ jf[j].mapCsv >= 0 => jf'[j].mapCsv >= 0
              /\ jf[j].finalPdf => jf'[j].finalPdf
              /\ jf[j].plan => jf'[j].plan
              /\ jf[j].filled => jf'[j].filled]_vars

\* A job that failed while storing its outputs, its plan and part of its outputs
\* still in place, and a later job on the same identity that went straight to the
\* planning stage on the mapping left behind.
C13_MappingReusedAfterError ==
    \E j, k \in Jobs :
        /\ status[j].state = "error" /\ jf[j].plan /\ completed[j] # {}
        /\ j \in prior[k] /\ jdoc[k] = jdoc[j] /\ jdoc[j] \notin evicted
        /\ mapping_exists(jdoc[j])
        /\ Ran(k, "plan") /\ ~Ran(k, "extract")

Terminal(j) == status[j].state \in {"done", "error"}

\* C14: every job create_job has accepted eventually reaches done or error, and
\* a step that is not a step of the job's own thread (or its creation) changes
\* neither its position nor its status.
C14_EveryJobEnds ==
    /\ \A j \in Jobs : (pc[j] # "none") ~> Terminal(j)
    /\ [][\A j \in Jobs :
             (pc'[j] # pc[j] \/ status'[j] # status[j])
                 => (Worker(j) \/ \E d \in CtlDocs, u \in BOOLEAN : CreateJob(j, d, u))]_vars

\* Both jobs have ended, one done after needs_mapping and one in error, and the
\* document was evicted on the way.
C14_BothEnded ==
    \E j, k \in Jobs :
        /\ pc[j] = "finished" /\ status[j].state = "done" /\ Wrote(j, "needs_mapping")
        /\ pc[k] = "finished" /\ status[k].state = "error"
        /\ evicted # {}

Runs(j, stage) == Cardinality({i \in 1..Len(calls[j]) : calls[j][i].stage = stage})

\* C15: a job runs each of extract, label, plan, fill at most once, and a run
\* that returned non-zero is the job's last.
C15_NoStageRunTwice ==
    \A j \in Jobs :
        /\ \A i \in 1..4 : Runs(j, StageOrder[i]) <= 1
        /\ \A i \in 1..Len(calls[j]) : ~calls[j][i].ok => i = Len(calls[j])

\* A job ended by a failed labeling run, and a new job on the same identity that
\* has run labeling again.
C15_RetriedByNewJob ==
    \E j, k \in Jobs :
        /\ pc[j] = "finished" /\ Ran(j, "label") /\ ~RanOk(j, "label")
        /\ j \in prior[k] /\ jdoc[k] = jdoc[j]
        /\ Ran(k, "label")

\* C16: a fill run that is given its plan, whatever the items in it (row ids
\* unknown to the mapping included), is not aborted: it returns 0 and leaves its
\* output, and the job does not end in error at the fill stage.
C16_FillNotAbortedBySkippedItems ==
    \A j \in Jobs :
        \A i \in 1..Len(calls[j]) :
            (calls[j][i].stage = "fill" /\ calls[j][i].ready)
                => (calls[j][i].ok /\ jf[j].filled /\ status[j].state # "error")

\* The widget that plan item i names: its row is in the mapping and the row's
\* xref is a widget of the row's page.
Names(i, w) ==
    LET row == nativeIn.plan[i].row
    IN  /\ nativeIn.csv[row].ok
        /\ nativeIn.csv[row].xref = w
        /\ nativeIn.csv[row].page = PageOf(w)

Named(w) == \E i \in 1..Len(nativeIn.plan) : Names(i, w)

\* The value of the last plan item that names w.
LastValue(w) ==
    LET i == CHOOSE i \in 1..Len(nativeIn.plan) :
                 Names(i, w) /\ \A k \in (i + 1)..Len(nativeIn.plan) : ~Names(k, w)
    IN  nativeIn.plan[i].value

Saved == npc.at \in {"partB", "exit0"}

Max(a, b) == IF a >= b THEN a ELSE b

Min(a, b) == IF a <= b THEN a ELSE b

Area(r) == Max(r.x2 - r.x1, 0) * Max(r.y2 - r.y1, 0)

Intersection(a, b) ==
    Rect(Max(a.x1, b.x1), Max(a.y1, b.y1), Min(a.x2, b.x2), Min(a.y2, b.y2))

\* The intersection of the widget's box with the row's box exceeds 80% of the
\* area of the row's box.
OverlapAccepts(box, rect) == Area(Intersection(box, rect)) * 100 > 80 * Area(rect)

\* C18: for a plan of one item whose row's xref is no widget of the row's page,
\* the widget of that page takes the item's value if and only if its box overlaps
\* the row's box by more than 80% of the row's box (79%: left as it was; 81%:
\* filled).
C18_OverlapThreshold ==
    (Saved /\ Len(nativeIn.plan) = 1 /\ nativeIn.csv[nativeIn.plan[1].row].ok
       /\ \A w \in Xrefs : ~Names(1, w))
        => LET row == nativeIn.csv[nativeIn.plan[1].row]
               w == CHOOSE w \in Xrefs : PageOf(w) = row.page
           IN  outActive[w] =
                   IF OverlapAccepts(Box, row.rect)
                     THEN FillWidget(nativeIn.pdf[w], nativeIn.plan[1].value)
                     ELSE nativeIn.pdf[w]

\* C19: a step of part A leaves a radio widget (its appearance state and its
\* group's value) as it was, or the item's value is in the list and the widget
\* is put in its on state.
C19_RadioNeverWrittenOff ==
    [][\A w \in Xrefs :
          (npc.at = "partA" /\ doc[w].kind = "radio")
              => \/ doc'[w] = doc[w]
                 \/ /\ should_check(nativeIn.plan[npc.i].value)
                    /\ doc'[w].as = OnState(doc[w])]_vars

\* The plan values whose string form, lower-cased, is one of x, true, yes, on, 1,
\* checked: "X", "true", "Yes", "ON", "checked" and the number 1.  The others are
\* "", "no", the number 0 and the boolean false.
CheckedValues ==
    { StrVal(<<"X">>), StrVal(<<"t", "r", "u", "e">>), StrVal(<<"Y", "e", "s">>),
      StrVal(<<"O", "N">>), StrVal(<<"c", "h", "e", "c", "k", "e", "d">>), IntVal(1) }

\* C20: a plan item that names a checkbox puts it in its on state (the state its
\* appearance names, Yes when it names none) if the value is one of the checked
\* values and in Off otherwise; and the flattened output carries a mark on a
\* checkbox exactly when an item naming it has a checked value.
C20_CheckboxVocabulary ==
    /\ [][\A w \in Xrefs :
             (npc.at = "partA" /\ npc.i <= Len(nativeIn.plan) /\ Names(npc.i, w)
                /\ doc[w].kind = "checkbox")
                 => doc'[w].as = IF nativeIn.plan[npc.i].value \in CheckedValues
                                    THEN (IF doc[w].on # "" THEN doc[w].on ELSE "Yes")
                                    ELSE "Off"]_vars
    /\ [](npc.at = "exit0" =>
            \A w \in Xrefs :
                nativeIn.pdf[w].kind = "checkbox" =>
                    (w \in outFlat.marks <=>
                        \E i \in 1..Len(nativeIn.plan) :
                            Names(i, w) /\ nativeIn.plan[i].value \in CheckedValues))

\* A run that checked one checkbox with "ON" and unchecked another with "no".
C20_CheckedAndUnchecked ==
    /\ npc.at = "exit0"
    /\ Len(nativeIn.plan) = 2
    /\ Names(1, 1) /\ nativeIn.plan[1].value = StrVal(<<"O", "N">>)
    /\ Names(2, 2) /\ nativeIn.plan[2].value = StrVal(<<"n", "o">>)
    /\ nativeIn.pdf[1] = CheckBox("On", "Off") /\ outActive[1].as = "On"
    /\ nativeIn.pdf[2] = CheckBox("On", "On") /\ outActive[2].as = "Off"
    /\ outFlat.marks = {1}

NativeIgnoresPlanGeometry ==
    \A i \in 1..Len(earlier) :
        /\ Saved => outActive = earlier[i].active
        /\ npc.at = "exit0" => outFlat = earlier[i].flat

\* C22: two fills of the same document whose plans have the same rows and values,
\* item by item, put the same values at the same places: what the second run
\* has written when it saves is what the first run wrote, whatever page and box
\* its items carry.
C22_PlanGeometryAdvisory ==
    \A i \in 1..Len(earlier) :
        (run.at = "saved" /\ SameItems(run.mapping, earlier[i].plan))
            => run.drawn = earlier[i].drawn

\* C23: a job has its own input.pdf from its creation on, and a step of the
\* thread of one job leaves the library, the working files, the status record and
\* the completed entry of every other job, and the mapping entries of every
\* other document, as they were.
C23_JobsShareOnlyTheMappingEntry ==
    /\ [](\A j \in Jobs : pc[j] # "none" => jf[j].input)
    /\ [][\A j \in Jobs :
             (pc[j] # "none" /\ pc'[j] # pc[j]) =>
                 /\ library' = library
                 /\ \A k \in Jobs \ {j} :
                       /\ jf'[k] = jf[k]
                       /\ status'[k] = status[k]
                       /\ completed'[k] = completed[k]
                 /\ \A d \in Docs \ {jdoc[j]} :
                       /\ mapDir'[d] = mapDir[d]
                       /\ mapCsv'[d] = mapCsv[d]
                       /\ annotated'[d] = annotated[d]
                       /\ richCsv'[d] = richCsv[d]]_vars

\* Two jobs on one document that ran side by side: one has stored its outputs and
\* is done, the other has stored nothing yet.
C23_SideBySide ==
    \E j, k \in Jobs :
        /\ Concurrent(j, k) /\ jdoc[j] = jdoc[k]
        /\ status[j].state = "done" /\ completed[j] # {}
        /\ pc[k] = "save_filled" /\ completed[k] = {}

\* Something of the mapping entry of d is removed in this step.
Removed(d) ==
    \/ mapDir[d] /\ ~mapDir'[d]
    \/ mapCsv[d].ex /\ ~mapCsv'[d].ex
    \/ annotated[d].ex /\ ~annotated'[d].ex
    \/ richCsv[d].ex /\ ~richCsv'[d].ex

CompletedEntry == {"filled.pdf", "fill_plan.json", "meta.json"}

\* C25: a step that takes a document out of the library or removes anything of
\* its mapping entry leaves every completed entry, every status record and every
\* job directory as it was; and a job in state done has filled.pdf,
\* fill_plan.json and meta.json in its completed entry, its document evicted or not.
C25_EvictionKeepsCompletedAndStatus ==
    /\ [][((\E d \in Docs : Removed(d)) \/ (library' # library /\ library' \subseteq library))
             => (completed' = completed /\ status' = status /\ jf' = jf)]_vars
    /\ [](\A j \in Jobs :
             status[j].state = "done" => CompletedEntry \subseteq completed[j])

\* A job that is done and whose document has since been evicted: no mapping entry
\* and no library pdf are left, the completed entry is whole.
C25_DoneThenEvicted ==
    \E j \in Jobs :
        /\ status[j].state = "done" /\ status[j].extra = OutputLinks
        /\ jdoc[j] \in evicted /\ jdoc[j] \notin library /\ ~mapDir[jdoc[j]]
        /\ completed[j] = CompletedEntry

\* C26: a save request with the same body made twice leaves the map_rich.csv files
\* as the first request left them; the request changes the map_rich.csv of its
\* identity and nothing else; and for an identity without a mapping directory it
\* changes nothing (no file and no directory is created).
C26_SaveIsIdempotentOverwrite ==
    /\ [](\A d \in Docs, n \in 1..MaxRows :
             LET once == save_mapping(richCsv, mapDir, d, n)
             IN  /\ save_mapping(once, mapDir, d, n) = once
                 /\ \A e \in Docs \ {d} : once[e] = richCsv[e]
                 /\ mapDir[d] => once[d] = FileOf(n, 0)
                 /\ ~mapDir[d] => once = richCsv)
    /\ [][\A d \in Docs :
             (richCsv'[d] # richCsv[d] /\ richCsv'[d].ex /\ richCsv'[d].by = 0)
                 => /\ mapDir[d]
                    /\ \A e \in Docs \ {d} : richCsv'[e] = richCsv[e]
                    /\ UNCHANGED <<apiKey, library, mapDir, mapCsv, annotated, pc, jdoc,
                                   status, jf, completed, hist, calls, prior, svcLog,
                                   evicted>>]_vars

\* A save over the map_rich.csv a labeling stage had written, while another
\* identity has no mapping directory for a save to write into.
C26_SavedOverLabeling ==
    \E j \in Jobs, e \in Docs :
        /\ RanOk(j, "label") /\ richCsv[jdoc[j]].ex /\ richCsv[jdoc[j]].by = 0
        /\ mapCsv[jdoc[j]].ex
        /\ ~mapDir[e] /\ ~richCsv[e].ex

\* The widgets of a document in the order of discovery: page after page, and on
\* a page in the order of its widgets.
RECURSIVE Discovered(_, _)
Discovered(pdf, pno) ==
    IF pno > Len(pdf) THEN <<>>
    ELSE [k \in 1..Len(pdf[pno].widgets) |->
             [page |-> pno, k |-> k, rect |-> pdf[pno].widgets[k].rect]]
         \o Discovered(pdf, pno + 1)

\* The rows are numbered 1, 2, ... in their order.
Numbered(rows) == \A n \in 1..Len(rows) : rows[n].row = n

\* A file of the mapping has as many rows as the CSV of the extraction, and in
\* every place the row id that the CSV has there.
SameRowIds(rows, csv) ==
    /\ Len(rows) = Len(csv)
    /\ \A n \in 1..Len(csv) : rows[n].row = csv[n].row

\* C27: extraction numbers the widgets 1, 2, ..., N in page order and, on a page,
\* in widget order, without gap or duplicate; the row ids of a written mapping
\* are distinct, and labeling, the save of the GUI and plan generation leave the
\* rows and their ids as extraction wrote them.
C27_RowIdsInDiscoveryOrder ==
    LET found == Discovered(run.pdf, 1)
    IN  /\ Numbered(run.rows)
        /\ "csv" \in run.files =>
              /\ Len(run.csv) = Len(found)
              /\ Numbered(run.csv)
              /\ \A n \in 1..Len(run.csv) :
                    /\ run.csv[n].page = found[n].page
                    /\ FitzRect(run.csv[n].x1, run.csv[n].y1, run.csv[n].x2,
                                run.csv[n].y2) = found[n].rect
              /\ \A m, n \in 1..Len(run.csv) :
                    m # n => run.csv[m].row # run.csv[n].row
        /\ "rich" \in run.files => SameRowIds(run.rich, run.csv)
        /\ "corrected" \in run.files => SameRowIds(run.corrected, run.csv)
        /\ run.planned =>
              /\ Len(run.summary) = Len(run.csv)
              /\ \A n \in 1..Len(run.csv) : run.summary[n].id = run.csv[n].row

\* Three widgets on two pages were numbered, labeled, corrected in the GUI with a
\* box moved, and read for a plan.
C27_NumberedLabeledCorrectedPlanned ==
    /\ Len(run.pdf) = MaxPages
    /\ Len(run.csv) = MaxPageWidgets + 1
    /\ {"csv", "rich", "corrected"} \subseteq run.files
    /\ run.corrected # run.rich
    /\ run.planned

LabelEnded == run.label \in {"exit0", "exit1"}

\* What the service said about the id of a row: "" when it said nothing.
Answered(r) == Get(run.answer, r.row, <<>>)

\* Whatever the service says about an id that no row has, no row gets it.
UnrequestedDescriptionsIgnored ==
    "rich" \in run.files =>
        \A n \in 1..Len(run.rich) :
            run.rich[n].rich_description \in {<<>>, Answered(run.rich[n])}

\* C29: when the labeling stage has ended, every row of the mapping has a
\* rich_description, and a row for whose id the service gave no description or an
\* empty one has its form_entry_description there, not the empty string.
C29_EveryRowDescribedOrFallsBack ==
    LabelEnded =>
        /\ "rich" \in run.files
        /\ Len(run.rich) = Len(run.csv)
        /\ \A n \in 1..Len(run.rich) :
              Answered(run.rich[n]) = <<>> =>
                  run.rich[n].rich_description = run.rich[n].form_entry_description

\* The label a row carries: the version of src/scripts writes it as the heading,
\* the version of src as the form_entry_description.
LabelOf(variant, r) ==
    IF variant = "scripts" THEN r.heading ELSE r.form_entry_description

\* C30: the label of a widget is its tooltip, whitespace-normalized, when it has
\* one; else all the words on its left within the search distance and overlapping
\* it vertically, joined from left to right, colon and space stripped from the
\* end; else its field name.  The version of src resolves labels in this way, and
\* the label of every row is compared with what that version finds, where it
\* finds one.
C30_LabelByPriority ==
    LET found == Discovered(run.pdf, 1)
    IN  \A n \in 1..Len(run.rows) :
            LET page == run.pdf[found[n].page]
                w == page.widgets[found[n].k]
                label == get_widget_label_src(page, w)
            IN  label # <<>> => LabelOf(run.variant, run.rows[n]) = label

\* The on-state that belongs to a button: the one its appearance dictionary
\* defines, whether get_on_state_from_ap can read it or only widget.on_state();
\* "" when it defines none.
Defines(w) == IF w.on # "" THEN w.on ELSE w.reports

\* The items of the plan that reach widget w, in plan order.
ItemsFor(w) ==
    SelectSeq(nativeIn.plan,
              LAMBDA item :
                  /\ item.row \in DOMAIN csv_map(nativeIn.csv)
                  /\ w \in FindWidget(csv_map(nativeIn.csv)[item.row]))

\* C31: a button set to checked gets the on-state found in its own appearance
\* dictionary, else the on-state the widget reports, and Yes only when neither is
\* found; Yes is never written to a widget whose appearance defines another
\* on-state.
C31_OnStateDiscovered ==
    Saved =>
        \A w \in Xrefs :
            LET orig == nativeIn.pdf[w]
                items == ItemsFor(w)
            IN  (/\ is_button_field(orig)
                 /\ items # <<>>
                 /\ should_check(items[Len(items)].value)) =>
                    /\ orig.on # "" => outActive[w].as = orig.on
                    /\ (orig.on = "" /\ orig.reports # "") =>
                           outActive[w].as = orig.reports
                    /\ (orig.on = "" /\ orig.reports = "") => outActive[w].as = "Yes"
                    /\ (Defines(orig) \notin {"", "Yes"}) => outActive[w].as # "Yes"

\* A check box whose appearance only widget.on_state() can read was checked, and
\* so was one for which both discoveries fail.
C31_ReportedAndDefaulted ==
    /\ Saved
    /\ nativeIn.pdf[1] = InlineAp(CheckBox("On", "Off"))
    /\ outActive[1].as = "On"
    /\ nativeIn.pdf[2] = CheckBox("", "Off")
    /\ outActive[2].as = "Yes"

\* C37: in the editable output at most one kid of a parent has an appearance state
\* other than Off, and the /V of the parent is the on-state of that kid, whatever
\* the plan.
C37_RadioGroupExclusive ==
    Saved =>
        \A v, w \in Xrefs :
            SharesParent(outActive, v, w) =>
                /\ ~(outActive[v].as # "Off" /\ outActive[w].as # "Off")
                /\ outActive[w].as # "Off" => outActive[w].pv = outActive[w].as

\* C39: when several items of the plan have the same row, the widget of that row
\* is left in the state that the last of them alone would give it: text value,
\* appearance state and parent /V.
C39_LastItemAloneDecides ==
    Saved =>
        \A w \in Xrefs :
            LET items == ItemsFor(w)
            IN  (/\ Len(items) > 1
                 /\ \A i \in 1..Len(items) : items[i].row = items[1].row) =>
                    outActive[w] = FillWidget(nativeIn.pdf[w], items[Len(items)].value)

\* C32: the flattened output is made from the editable output that was just
\* saved, not from the original: it has one page for every page of that document,
\* in the same order and of the same size, each showing the widget as it was
\* filled or the mark drawn in its place, and it has no widgets.
C32_FlatFromFilledPageByPage ==
    npc.at = "exit0" =>
        /\ outFlat.widgets = {}
        /\ DOMAIN outFlat.pages = DOMAIN outActive
        /\ \A p \in DOMAIN outActive :
              /\ outFlat.pages[p].width = PageRect(p).width
              /\ outFlat.pages[p].height = PageRect(p).height
              /\ ~outFlat.pages[p].image.mark =>
                    /\ outFlat.pages[p].image.value = outActive[p].value
                    /\ outFlat.pages[p].image.as = outActive[p].as

\* A text widget that held "old" was filled with another string and the flattened
\* output shows the new string.
C32_FlatShowsFilledText ==
    /\ npc.at = "exit0"
    /\ nativeIn.pdf[1] = TextWidget(OldText)
    /\ outActive[1].value = <<"X">>
    /\ outFlat.pages[1].image.value = <<"X">>

\* C38: a create_job request that is rejected changes nothing that is stored: no
\* job directory, no status record, no library entry; and no thread is started
\* for it.
C38_RejectedRequestLeavesNothing ==
    [][\A j \in Jobs :
          (pc[j] = "none" /\ pc'[j] = "rejected") =>
              /\ jf' = jf
              /\ status' = status
              /\ library' = library
              /\ store' = store]_vars

\* The jobs api_completed_list returns: those whose directory under DONE_DIR has
\* a meta.json.
Listed == {j \in Jobs : "meta.json" \in completed[j]}

ProgressFits(s) ==
    /\ s.progress \in 0..100
    /\ s.progress = 100 <=> s.state \in {"done", "error"}

\* C36: the progress of a job's status is always in 0..100, no status write
\* lowers it, and it is 100 exactly when the state is done or error.
C36_ProgressBoundedMonotone ==
    /\ [](\A j \in Jobs : ProgressFits(status[j]))
    /\ [][\A j \in Jobs : status'[j].progress >= status[j].progress]_vars

\* One job went through every status write to done; another ended in error after
\* it had reported progress 38.
C36_DoneAndErrorAtFull ==
    \E j, k \in Jobs :
        /\ status[j] = StatusRec("done", 100, "Done.", OutputLinks)
        /\ Len(hist[j]) = 8
        /\ status[k].state = "error" /\ status[k].progress = 100
        /\ Len(hist[k]) = 5

\* C34: whenever an identity has a map_rich.csv in the mapping store, it has a
\* map.csv and an annotated.pdf too.
C34_RichTableHasTableAndRendering ==
    \A d \in Docs : richCsv[d].ex => mapCsv[d].ex /\ annotated[d].ex

\* The states set_status writes.
JobStates == {"queued", "running", "needs_mapping", "done", "error"}

\* C35: a status poll of a job that exists is answered with a whole record whose
\* state is one of queued, running, needs_mapping, done, error; it is never
\* answered from an empty or cut record, and never with the state unknown.
C35_PollReturnsWholeStatus ==
    (run.job \in Jobs /\ run.code # 404) =>
        (run.code = 200 /\ run.state \in JobStates)
====
